---- MODULE Spec2Model ----
(***************************************************************************)
(* The raster illustration editor: HistoryManager (history.js),            *)
(* LayerManager / ImageEditor (part_001), Utils / CanvasManager            *)
(* (part_002), ToolManager and the tools (part_000), IllustrationEditor    *)
(* (main.js).                                                              *)
(*                                                                         *)
(* Conventions.  Indices are 0-based as in the JavaScript; At(s, i) reads  *)
(* element i of an array.  A canvas is [width, height, data] with data the *)
(* row-major sequence of RGBA pixels <<r, g, b, a>>, channels 0..255.      *)
(* Opacities and globalAlpha are percentages 0..100 (the source's floats   *)
(* 0..1 times 100).  A data URL is modelled as the flat byte sequence of   *)
(* the image, decoded again by the image load.                             *)
(***************************************************************************)
EXTENDS Integers, Sequences, FiniteSets, Bags, TLC

\* ------------------------------------------------------------------ bounds
\* Width of the canvas in pixels; the canvas is one row of pixels
\* (800 x 600 in the source, scaled down).
CanvasW == 2
\* HistoryManager.maxHistorySize (50 in the source, scaled down).
maxHistorySize == 3
\* User commands (events handled) in one session; image-load callbacks
\* are not counted.
MaxCommands == 4
\* HistoryManager.optimizeHistory's byte budget (100 MB in the source,
\* scaled down to the size of the modelled data URLs).
MemoryBudget == 8

\* ------------------------------------------------------------ JS arrays
At(s, i) == s[i + 1]

Last(s) == s[Len(s)]

\* Array.prototype.splice(start) : remove everything from start on.
SpliceFrom(s, start) == SubSeq(s, 1, start)

\* Array.prototype.splice(index, 1) : remove element index.
SpliceOne(s, index) == SubSeq(s, 1, index) \o SubSeq(s, index + 2, Len(s))

\* Array.prototype.splice(index, 0, e) : insert e so that it gets index.
\* An index beyond the end appends.
SpliceIn(s, index, e) ==
    LET k == IF index > Len(s) THEN Len(s) ELSE index
    IN  SubSeq(s, 1, k) \o <<e>> \o SubSeq(s, k + 1, Len(s))

Max(a, b) == IF a >= b THEN a ELSE b

Min(a, b) == IF a <= b THEN a ELSE b

\* Utils.clamp
clamp(value, min, max) == Min(Max(value, min), max)

\* Division rounded to the nearest integer (n >= 0, d > 0).
RDiv(n, d) == (2 * n + d) \div (2 * d)

\* ---------------------------------------------------------------- pixels
Transparent == <<0, 0, 0, 0>>

Black == <<0, 0, 0, 255>>

Red == <<255, 0, 0, 255>>

Blue == <<0, 0, 255, 255>>

\* CSS colour strings of the tool properties, as the pixel they paint.
ColorOf(c) ==
    CASE c = "#000000" -> Black
      [] c = "#ff0000" -> Red
      [] c = "#0000ff" -> Blue
      [] c = "#ffffff" -> <<255, 255, 255, 255>>
      [] OTHER -> Transparent

\* A pixel whose alpha is 0 carries no colour (the canvas stores
\* premultiplied values).
Canon(p) == IF p[4] = 0 THEN Transparent ELSE p

\* globalCompositeOperation values the 2D context accepts.  "normal" is a
\* CSS blend mode but no composite operation: assigning it is ignored.
ValidGCO == {"source-over", "destination-out", "multiply"}

\* The 2D context's default drawing state.
DefaultCtx ==
    [globalAlpha |-> 100, globalCompositeOperation |-> "source-over",
     strokeStyle |-> "#000000", fillStyle |-> "#000000", lineWidth |-> 1]

\* ctx.globalCompositeOperation = v
SetGCO(ctx, v) ==
    IF v \in ValidGCO THEN [ctx EXCEPT !.globalCompositeOperation = v] ELSE ctx

\* ctx.globalAlpha = v  (values outside [0, 1] are ignored)
SetAlpha(ctx, v) ==
    IF v >= 0 /\ v <= 100 THEN [ctx EXCEPT !.globalAlpha = v] ELSE ctx

\* Source s drawn over destination d with the context's globalAlpha ga.
SourceOver(s, d, ga) ==
    LET sa == RDiv(s[4] * ga, 100)
        oa == sa + RDiv(d[4] * (255 - sa), 255)
        ch(k) == IF oa = 0 THEN 0
                 ELSE RDiv(s[k] * sa * 255 + d[k] * d[4] * (255 - sa), oa * 255)
    IN  Canon(<<ch(1), ch(2), ch(3), oa>>)

\* destination-out: the destination is kept where the source is absent.
DestinationOut(s, d, ga) ==
    LET sa == RDiv(s[4] * ga, 100)
        oa == RDiv(d[4] * (255 - sa), 255)
    IN  Canon(<<d[1], d[2], d[3], oa>>)

\* multiply: the source colour is multiplied with the backdrop where the
\* backdrop is present, then composited source-over.
Multiply(s, d, ga) ==
    LET bl(k) == RDiv((255 - d[4]) * s[k] * 255 + d[4] * s[k] * d[k], 255 * 255)
    IN  SourceOver(<<bl(1), bl(2), bl(3), s[4]>>, d, ga)

\* One pixel composited with the context's state.
Composite(s, d, ctx) ==
    CASE ctx.globalCompositeOperation = "destination-out" ->
            DestinationOut(s, d, ctx.globalAlpha)
      [] ctx.globalCompositeOperation = "multiply" ->
            Multiply(s, d, ctx.globalAlpha)
      [] OTHER -> SourceOver(s, d, ctx.globalAlpha)

\* --------------------------------------------------------------- canvases
\* document.createElement('canvas') with width and height set: transparent.
NewCanvas(w, h) ==
    [width |-> w, height |-> h, data |-> [i \in 1..(w * h) |-> Transparent]]

PixelAt(c, x, y) ==
    IF x >= 0 /\ x < c.width /\ y >= 0 /\ y < c.height
    THEN c.data[y * c.width + x + 1]
    ELSE Transparent

\* ctx.clearRect(0, 0, canvas.width, canvas.height)
clearRect(c) == NewCanvas(c.width, c.height)

\* ctx.drawImage(src, 0, 0) on canvas dst whose context state is ctx.
drawImage(dst, ctx, src) ==
    [dst EXCEPT !.data =
        [i \in 1..(dst.width * dst.height) |->
            LET x == (i - 1) % dst.width
                y == (i - 1) \div dst.width
            IN  IF x < src.width /\ y < src.height
                THEN Composite(PixelAt(src, x, y), dst.data[i], ctx)
                ELSE dst.data[i]]]

\* Utils.copyCanvas
copyCanvas(sourceCanvas) ==
    drawImage(NewCanvas(sourceCanvas.width, sourceCanvas.height), DefaultCtx,
              sourceCanvas)

RECURSIVE Flatten(_)
\* The bytes of a pixel sequence: r, g, b, a of each pixel in turn.
Flatten(pixels) ==
    IF pixels = <<>> THEN <<>>
    ELSE Flatten(SubSeq(pixels, 1, Len(pixels) - 1)) \o Last(pixels)

\* canvas.toDataURL()
toDataURL(c) == [width |-> c.width, height |-> c.height, bytes |-> Flatten(c.data)]

\* The image an <img> holds once a data URL has loaded.
DecodeImage(url) ==
    [width |-> url.width, height |-> url.height,
     data |-> [i \in 1..(url.width * url.height) |->
                  Canon(<<url.bytes[4 * i - 3], url.bytes[4 * i - 2],
                          url.bytes[4 * i - 1], url.bytes[4 * i]>>)]]

\* ------------------------------------------------------------------ state
VARIABLES
    layers,            \* LayerManager.layers
    activeLayerIndex,  \* LayerManager.activeLayerIndex
    layerIdCounter,    \* LayerManager.layerIdCounter
    mainCanvas,        \* CanvasManager.mainCanvas
    mainCtx,           \* drawing state of CanvasManager.mainCtx
    overlayCanvas,     \* CanvasManager.overlayCanvas
    history,           \* HistoryManager.history
    currentIndex,      \* HistoryManager.currentIndex
    toolManager,       \* ToolManager: currentTool, properties
    canvasManager,     \* CanvasManager: currentTool, isDrawing, startPoint, currentPath
    lastPoint,         \* PenTool.lastPoint
    textPosition,      \* TextTool.textPosition
    originalImageData, \* ImageEditor.originalImageData
    pending,           \* image loads in flight (img.onload not yet run)
    timing,            \* Date.now(), the armed timeouts, Utils.throttle's inThrottle, Utils.debounce's timeout
    initTimer,         \* the 'Initial state' timeout of init() is still armed
    budget,            \* user commands the session may still issue
    downDoc,           \* <<document at the pointerDown of the operation>>, or <<>>
    op,                \* the handler that ran last, with its arguments
    ret                \* what it returned ("TypeError" when it threw)

vars == <<layers, activeLayerIndex, layerIdCounter, mainCanvas, mainCtx,
          overlayCanvas, history, currentIndex, toolManager, canvasManager,
          lastPoint, textPosition, originalImageData, pending, timing, initTimer,
          budget, downDoc, op, ret>>

\* The program state as one record, so that a handler is the composition
\* of the methods it calls.
World ==
    [layers |-> layers, activeLayerIndex |-> activeLayerIndex,
     layerIdCounter |-> layerIdCounter, mainCanvas |-> mainCanvas,
     mainCtx |-> mainCtx, overlayCanvas |-> overlayCanvas,
     history |-> history, currentIndex |-> currentIndex,
     toolManager |-> toolManager, canvasManager |-> canvasManager,
     lastPoint |-> lastPoint, textPosition |-> textPosition,
     originalImageData |-> originalImageData, pending |-> pending,
     timing |-> timing, initTimer |-> initTimer, ret |-> ret]

\* The handler `name` leaves the program in world w.
Becomes(w, name) ==
    /\ layers' = w.layers
    /\ activeLayerIndex' = w.activeLayerIndex
    /\ layerIdCounter' = w.layerIdCounter
    /\ mainCanvas' = w.mainCanvas
    /\ mainCtx' = w.mainCtx
    /\ overlayCanvas' = w.overlayCanvas
    /\ history' = w.history
    /\ currentIndex' = w.currentIndex
    /\ toolManager' = w.toolManager
    /\ canvasManager' = w.canvasManager
    /\ lastPoint' = w.lastPoint
    /\ textPosition' = w.textPosition
    /\ originalImageData' = w.originalImageData
    /\ pending' = w.pending
    /\ timing' = w.timing
    /\ initTimer' = w.initTimer
    /\ ret' = w.ret
    /\ op' = name

Returning(w, value) == [w EXCEPT !.ret = value]

\* null, where the source holds a point or null.
NoPoint == <<>>

\* null, where the source holds an ImageData or null.
NoImageData == <<>>

\* The ids of layers are numbers; a name is "Background", "Layer <n>",
\* "Flattened", each followed by `copies` times " Copy".
LayerName(base, n) == [base |-> base, n |-> n, copies |-> 0]

\* ------------------------------------------------------- LayerManager (1)
\* LayerManager.getActiveLayer : the index of the active layer when
\* this.layers[this.activeLayerIndex] is defined.
hasActiveLayer(w) ==
    w.activeLayerIndex >= 0 /\ w.activeLayerIndex < Len(w.layers)

\* LayerManager.syncActiveLayerToCanvas : the layer is drawn with whatever
\* state the main context is in.
syncActiveLayerToCanvas(w) ==
    IF ~hasActiveLayer(w) THEN w
    ELSE [w EXCEPT !.mainCanvas =
            drawImage(clearRect(w.mainCanvas), w.mainCtx,
                      At(w.layers, w.activeLayerIndex).canvas)]

RECURSIVE PaintLayersOpaque(_, _, _, _)
\* renderComposite's loop drawing every visible layer at full opacity.
PaintLayersOpaque(ls, i, canvas, ctx) ==
    IF i >= Len(ls) THEN canvas
    ELSE LET layer == At(ls, i)
             c == SetGCO(SetAlpha(ctx, 100), layer.blendMode)
         IN  PaintLayersOpaque(ls, i + 1,
                               IF layer.visible THEN drawImage(canvas, c, layer.canvas)
                               ELSE canvas,
                               ctx)

RECURSIVE PaintLayers(_, _, _, _)
\* The loop of renderComposite from layer i (0-based) on.  Each layer is
\* drawn between save() and restore(), so the context is left as it was.
PaintLayers(ls, i, canvas, ctx) ==
    IF i >= Len(ls) THEN canvas
    ELSE LET layer == At(ls, i)
             c == SetGCO(SetAlpha(ctx, layer.opacity), layer.blendMode)
         IN  PaintLayers(ls, i + 1,
                         IF layer.visible THEN drawImage(canvas, c, layer.canvas)
                         ELSE canvas,
                         ctx)

\* LayerManager.renderComposite
renderComposite(w) ==
    [w EXCEPT !.mainCanvas = PaintLayers(w.layers, 0, clearRect(w.mainCanvas), w.mainCtx)]

\* LayerManager.setActiveLayer
setActiveLayer(w, index) ==
    IF index < 0 \/ index >= Len(w.layers) THEN Returning(w, "false")
    ELSE Returning(syncActiveLayerToCanvas([w EXCEPT !.activeLayerIndex = index]),
                   "true")

\* LayerManager.exportLayers
exportLayers(w) ==
    [i \in 1..Len(w.layers) |->
        [id |-> w.layers[i].id, name |-> w.layers[i].name,
         visible |-> w.layers[i].visible, opacity |-> w.layers[i].opacity,
         blendMode |-> w.layers[i].blendMode, locked |-> w.layers[i].locked,
         dataURL |-> toDataURL(w.layers[i].canvas)]]

\* new Image() with onload set and src assigned: one more load in flight.
\* The loads complete in any order, so they are kept as a bag.
StartLoad(loads, load) == loads (+) SetToBag({load})

RECURSIVE StartLoads(_, _, _)
\* The forEach of importLayers from element i (1-based) on.
StartLoads(loads, i, layersData) ==
    IF i > Len(layersData) THEN loads
    ELSE StartLoads(StartLoad(loads, [kind |-> "layer", layerData |-> layersData[i],
                                      total |-> Len(layersData)]),
                    i + 1, layersData)

\* LayerManager.importLayers : the stack is emptied at once and one image
\* load per layer is started; the layers arrive in the loads' callbacks.
importLayers(w, layersData) ==
    [w EXCEPT !.layers = <<>>,
              !.activeLayerIndex = -1,
              !.pending = StartLoads(w.pending, 1, layersData)]

\* document.createElement('canvas') in the img.onload of importLayers: an
\* element that no layer of the stack holds.  The elements made by
\* createLayer are named by positive numbers, these by negative ones.
FreshElement(ls) ==
    LET es == {ls[k].element : k \in 1..Len(ls)} \cup {0}
    IN  (CHOOSE m \in es : \A e \in es : m <= e) - 1

\* The img.onload of importLayers.
layerLoaded(w, load) ==
    LET img == DecodeImage(load.layerData.dataURL)
        layer == [id |-> load.layerData.id, name |-> load.layerData.name,
                  visible |-> load.layerData.visible,
                  opacity |-> load.layerData.opacity,
                  blendMode |-> load.layerData.blendMode,
                  locked |-> load.layerData.locked,
                  element |-> FreshElement(w.layers),
                  canvas |-> drawImage(NewCanvas(img.width, img.height),
                                       DefaultCtx, img)]
        w1 == [w EXCEPT !.layers = Append(w.layers, layer)]
    IN  IF Len(w1.layers) = load.total
        THEN renderComposite(setActiveLayer(w1, 0))
        ELSE w1

\* ------------------------------------------------------------ CanvasManager
\* CanvasManager.resizeCanvas : assigning a canvas's width or height
\* clears it and resets its context to the default state.
resizeCanvas(w, width, height) ==
    [w EXCEPT !.mainCanvas = NewCanvas(width, height),
              !.mainCtx = DefaultCtx,
              !.overlayCanvas = NewCanvas(width, height)]

\* CanvasManager.clearOverlay
clearOverlay(w) == [w EXCEPT !.overlayCanvas = clearRect(w.overlayCanvas)]

\* --------------------------------------------------------- HistoryManager
\* HistoryManager.captureCanvasState
captureCanvasState(w) ==
    [width |-> w.mainCanvas.width, height |-> w.mainCanvas.height,
     dataURL |-> toDataURL(w.mainCanvas)]

\* HistoryManager.captureLayersState
captureLayersState(w) ==
    [activeLayerIndex |-> w.activeLayerIndex, layers |-> exportLayers(w)]

\* HistoryManager.capturePropertiesState
capturePropertiesState(w) ==
    [currentTool |-> w.toolManager.currentTool,
     properties |-> w.toolManager.properties]

\* HistoryManager.canUndo
canUndo(w) == w.currentIndex > 0

\* HistoryManager.canRedo
canRedo(w) == w.currentIndex < Len(w.history) - 1

\* saveState that keeps the entries after currentIndex.
saveStateKeepingTail(w, description) ==
    LET state == [timestamp |-> w.timing.now,
                  description |-> description, canvasData |-> captureCanvasState(w),
                  layersData |-> captureLayersState(w),
                  properties |-> capturePropertiesState(w)]
        pushed == Append(w.history, state)
    IN  IF Len(pushed) > maxHistorySize THEN [w EXCEPT !.history = Tail(pushed)]
        ELSE [w EXCEPT !.history = pushed, !.currentIndex = w.currentIndex + 1]

\* saveState whose entries hold the live properties object instead of a
\* copy: every entry of the log shows the properties of the moment.
saveStateSharingProperties(w, description) ==
    LET kept == IF w.currentIndex < Len(w.history) - 1
                THEN SpliceFrom(w.history, w.currentIndex + 1)
                ELSE w.history
        state == [timestamp |-> w.timing.now,
                  description |-> description,
                  canvasData |-> captureCanvasState(w),
                  layersData |-> captureLayersState(w),
                  properties |-> capturePropertiesState(w)]
        pushed == [i \in 1..(Len(kept) + 1) |->
                      [Append(kept, state)[i] EXCEPT
                          !.properties.properties = w.toolManager.properties]]
    IN  IF Len(pushed) > maxHistorySize
        THEN [w EXCEPT !.history = Tail(pushed)]
        ELSE [w EXCEPT !.history = pushed, !.currentIndex = w.currentIndex + 1]

\* HistoryManager.saveState
saveState(w, description) ==
    LET kept == IF w.currentIndex < Len(w.history) - 1
                THEN SpliceFrom(w.history, w.currentIndex + 1)
                ELSE w.history
        state == [timestamp |-> w.timing.now,
                  description |-> description,
                  canvasData |-> captureCanvasState(w),
                  layersData |-> captureLayersState(w),
                  properties |-> capturePropertiesState(w)]
        pushed == Append(kept, state)
    IN  IF Len(pushed) > maxHistorySize
        THEN [w EXCEPT !.history = Tail(pushed)]
        ELSE [w EXCEPT !.history = pushed, !.currentIndex = w.currentIndex + 1]

\* HistoryManager.restoreCanvas : the pixels arrive in the load's callback.
restoreCanvas(w, canvasData) ==
    LET w1 == IF w.mainCanvas.width # canvasData.width
                 \/ w.mainCanvas.height # canvasData.height
              THEN resizeCanvas(w, canvasData.width, canvasData.height)
              ELSE w
    IN  [w1 EXCEPT !.pending =
            StartLoad(w1.pending, [kind |-> "canvas", dataURL |-> canvasData.dataURL])]

\* The img.onload of restoreCanvas : drawn with the main context's state.
canvasLoaded(w, load) ==
    [w EXCEPT !.mainCanvas =
        drawImage(clearRect(w.mainCanvas), w.mainCtx, DecodeImage(load.dataURL))]

\* HistoryManager.restoreLayers
restoreLayers(w, layersData) ==
    [importLayers(w, layersData.layers) EXCEPT
        !.activeLayerIndex = layersData.activeLayerIndex]

\* HistoryManager.restoreProperties
restoreProperties(w, propertiesData) ==
    [w EXCEPT !.toolManager =
        [currentTool |-> propertiesData.currentTool,
         properties |-> propertiesData.properties]]

\* HistoryManager.restoreState
restoreState(w, state) ==
    restoreProperties(
        restoreLayers(restoreCanvas(w, state.canvasData), state.layersData),
        state.properties)

\* undo that steps with currentIndex >= 0 and stays on the first entry.
undoFromFirst(w) ==
    IF w.currentIndex < 0 THEN Returning(w, "false")
    ELSE LET w1 == [w EXCEPT !.currentIndex = Max(0, w.currentIndex - 1)]
         IN  Returning(restoreState(w1, At(w1.history, w1.currentIndex)), "true")

\* HistoryManager.undo
undo(w) ==
    IF ~canUndo(w) THEN Returning(w, "false")
    ELSE LET w1 == [w EXCEPT !.currentIndex = w.currentIndex - 1]
         IN  Returning(restoreState(w1, At(w1.history, w1.currentIndex)), "true")

\* HistoryManager.redo
redo(w) ==
    IF ~canRedo(w) THEN Returning(w, "false")
    ELSE LET w1 == [w EXCEPT !.currentIndex = w.currentIndex + 1]
         IN  Returning(restoreState(w1, At(w1.history, w1.currentIndex)), "true")

\* this.updateHistoryUI() : HistoryManager defines no such method, so the
\* call throws a TypeError and the rest of the caller does not run.
updateHistoryUI(w) == Returning(w, "TypeError")

\* HistoryManager.jumpToState
jumpToState(w, targetIndex) ==
    IF targetIndex < 0 \/ targetIndex >= Len(w.history) THEN Returning(w, "false")
    ELSE LET w1 == [w EXCEPT !.currentIndex = targetIndex]
         IN  updateHistoryUI(restoreState(w1, At(w1.history, w1.currentIndex)))

\* HistoryManager.clearHistory
clearHistory(w) ==
    updateHistoryUI([w EXCEPT !.history = <<>>, !.currentIndex = -1])

RECURSIVE SumSizes(_)
SumSizes(h) ==
    IF h = <<>> THEN 0
    ELSE Len(h[1].canvasData.dataURL.bytes) + SumSizes(Tail(h))

\* HistoryManager.getMemoryUsage : the summed lengths of the data URLs.
getMemoryUsage(w) == SumSizes(w.history)

\* HistoryManager.optimizeHistory
optimizeHistory(w) ==
    IF getMemoryUsage(w) > MemoryBudget
    THEN LET itemsToRemove == (Len(w.history) * 3) \div 10
         IN  updateHistoryUI(
                 [w EXCEPT !.history = SubSeq(w.history, itemsToRemove + 1,
                                              Len(w.history)),
                           !.currentIndex = Max(0, w.currentIndex - itemsToRemove)])
    ELSE Returning(w, "undefined")

\* HistoryManager.exportHistory
exportHistory(w) == [history |-> w.history, currentIndex |-> w.currentIndex]

\* A historyData argument that is null or whose history is no array.
NoHistoryData == [history |-> <<>>, currentIndex |-> -1, isArray |-> FALSE]

\* importHistory taking the stored currentIndex as it is.
importHistoryUnchecked(w, historyData) ==
    IF ~historyData.isArray THEN Returning(w, "false")
    ELSE [w EXCEPT !.history = historyData.history,
                   !.currentIndex = historyData.currentIndex,
                   !.ret = "TypeError"]

\* HistoryManager.importHistory
importHistory(w, historyData) ==
    IF ~historyData.isArray THEN Returning(w, "false")
    ELSE LET n == Len(historyData.history)
             ci == historyData.currentIndex
         IN  updateHistoryUI(
                 [w EXCEPT !.history = historyData.history,
                           !.currentIndex = IF ci < 0 \/ ci >= n THEN n - 1 ELSE ci])

\* ------------------------------------------------------- LayerManager (2)
\* Drawing into a canvas element: every layer that holds the element shows
\* the new surface.
WriteCanvas(ls, element, canvas) ==
    [i \in 1..Len(ls) |->
        IF ls[i].element = element THEN [ls[i] EXCEPT !.canvas = canvas] ELSE ls[i]]

\* LayerManager.createLayerCanvas
createLayerCanvas(w) == NewCanvas(w.mainCanvas.width, w.mainCanvas.height)

\* LayerManager.createLayer : name.base = "" stands for the empty name.
\* Every caller hands over a canvas element created for this layer (or none,
\* and one is created); element names that element by the layer's id, and
\* canvas is what the element holds.
createLayer(w, name, visible, canvas) ==
    LET id == w.layerIdCounter + 1
        layer == [id |-> id,
                  name |-> IF name.base = "" THEN LayerName("Layer", id) ELSE name,
                  visible |-> visible, opacity |-> 100, blendMode |-> "normal",
                  locked |-> FALSE, element |-> id, canvas |-> canvas]
    IN  [w EXCEPT !.layerIdCounter = id, !.layers = Append(w.layers, layer)]

\* LayerManager.createDefaultLayer
createDefaultLayer(w) ==
    setActiveLayer(createLayer(w, LayerName("Background", 0), TRUE,
                               createLayerCanvas(w)), 0)

\* LayerManager.addLayer
addLayer(w, name) ==
    LET w1 == createLayer(w, name, TRUE, createLayerCanvas(w))
        w2 == setActiveLayer(w1, Len(w1.layers) - 1)
    IN  Returning(saveState(w2, "Action"), "layer")

\* deleteLayer without the check for the last layer.
deleteLayerOfAny(w, index) ==
    IF index < 0 \/ index >= Len(w.layers) THEN Returning(w, "false")
    ELSE LET w1 == [w EXCEPT !.layers = SpliceOne(w.layers, index),
                             !.activeLayerIndex =
                                 IF w.activeLayerIndex >= index
                                 THEN Max(0, w.activeLayerIndex - 1)
                                 ELSE w.activeLayerIndex]
         IN  Returning(saveState(renderComposite(w1), "Action"), "true")

\* LayerManager.deleteLayer
deleteLayer(w, index) ==
    IF Len(w.layers) <= 1 THEN Returning(w, "false")
    ELSE IF index < 0 \/ index >= Len(w.layers) THEN Returning(w, "false")
    ELSE LET w1 == [w EXCEPT !.layers = SpliceOne(w.layers, index),
                             !.activeLayerIndex =
                                 IF w.activeLayerIndex >= index
                                 THEN Max(0, w.activeLayerIndex - 1)
                                 ELSE w.activeLayerIndex]
         IN  Returning(saveState(renderComposite(w1), "Action"), "true")

\* duplicateLayer giving the copy the canvas element of the original.
duplicateLayerSharingCanvas(w, index) ==
    IF index < 0 \/ index >= Len(w.layers) THEN Returning(w, "null")
    ELSE LET originalLayer == At(w.layers, index)
             w1 == createLayer(w, [originalLayer.name EXCEPT !.copies = @ + 1],
                               TRUE, originalLayer.canvas)
             newLayer == [Last(w1.layers) EXCEPT
                              !.element = originalLayer.element,
                              !.opacity = originalLayer.opacity,
                              !.blendMode = originalLayer.blendMode]
             w2 == [w1 EXCEPT !.layers = SpliceIn(w.layers, index + 1, newLayer)]
         IN  Returning(saveState(setActiveLayer(w2, index + 1), "Action"), "layer")

\* LayerManager.duplicateLayer
duplicateLayer(w, index) ==
    IF index < 0 \/ index >= Len(w.layers) THEN Returning(w, "null")
    ELSE LET originalLayer == At(w.layers, index)
             w1 == createLayer(w, [originalLayer.name EXCEPT !.copies = @ + 1],
                               TRUE, copyCanvas(originalLayer.canvas))
             newLayer == [Last(w1.layers) EXCEPT
                              !.opacity = originalLayer.opacity,
                              !.blendMode = originalLayer.blendMode]
             w2 == [w1 EXCEPT !.layers = SpliceIn(w.layers, index + 1, newLayer)]
         IN  Returning(saveState(setActiveLayer(w2, index + 1), "Action"), "layer")

\* toggleLayerVisibility without the check of its index.
toggleLayerVisibilityUnchecked(w, index) ==
    LET w1 == IF index < 0 \/ index >= Len(w.layers) THEN w
              ELSE [w EXCEPT !.layers[index + 1].visible = ~@]
    IN  Returning(saveState(renderComposite(w1), "Action"), "undefined")

\* LayerManager.toggleLayerVisibility
toggleLayerVisibility(w, index) ==
    IF index < 0 \/ index >= Len(w.layers) THEN Returning(w, "undefined")
    ELSE LET w1 == [w EXCEPT !.layers[index + 1].visible = ~@]
         IN  Returning(saveState(renderComposite(w1), "Action"), "undefined")

\* LayerManager.setLayerOpacity
setLayerOpacity(w, index, opacity) ==
    IF index < 0 \/ index >= Len(w.layers) THEN Returning(w, "undefined")
    ELSE Returning(
             renderComposite([w EXCEPT !.layers[index + 1].opacity =
                                           clamp(opacity, 0, 100)]),
             "undefined")

\* LayerManager.setLayerBlendMode
setLayerBlendMode(w, index, blendMode) ==
    IF index < 0 \/ index >= Len(w.layers) THEN Returning(w, "undefined")
    ELSE Returning(
             renderComposite([w EXCEPT !.layers[index + 1].blendMode = blendMode]),
             "undefined")

\* moveLayer following the active layer only when it is the one moved.
moveLayerFollowingMovedOnly(w, fromIndex, toIndex) ==
    IF fromIndex < 0 \/ fromIndex >= Len(w.layers)
       \/ toIndex < 0 \/ toIndex >= Len(w.layers)
    THEN Returning(w, "false")
    ELSE LET layer == At(w.layers, fromIndex)
             moved == SpliceIn(SpliceOne(w.layers, fromIndex), toIndex, layer)
             a == w.activeLayerIndex
             w1 == [w EXCEPT !.layers = moved,
                             !.activeLayerIndex = IF a = fromIndex THEN toIndex ELSE a]
         IN  Returning(saveState(renderComposite(w1), "Action"), "true")

\* LayerManager.moveLayer
moveLayer(w, fromIndex, toIndex) ==
    IF fromIndex < 0 \/ fromIndex >= Len(w.layers)
       \/ toIndex < 0 \/ toIndex >= Len(w.layers)
    THEN Returning(w, "false")
    ELSE LET layer == At(w.layers, fromIndex)
             moved == SpliceIn(SpliceOne(w.layers, fromIndex), toIndex, layer)
             a == w.activeLayerIndex
             w1 == [w EXCEPT !.layers = moved,
                             !.activeLayerIndex =
                                 IF a = fromIndex THEN toIndex
                                 ELSE IF fromIndex < a /\ toIndex >= a THEN a - 1
                                 ELSE IF fromIndex > a /\ toIndex <= a THEN a + 1
                                 ELSE a]
         IN  Returning(saveState(renderComposite(w1), "Action"), "true")

\* LayerManager.mergeDown : the upper layer is drawn onto the lower one
\* between save() and restore() of the lower canvas's own context, then
\* deleteLayer removes it (and saves a state), then a state is saved.
mergeDown(w, index) ==
    IF index <= 0 \/ index >= Len(w.layers) THEN Returning(w, "false")
    ELSE LET upperLayer == At(w.layers, index)
             lowerLayer == At(w.layers, index - 1)
             c == SetGCO(SetAlpha(DefaultCtx, upperLayer.opacity),
                         upperLayer.blendMode)
             w1 == [w EXCEPT !.layers =
                        WriteCanvas(w.layers, lowerLayer.element,
                                    drawImage(lowerLayer.canvas, c, upperLayer.canvas))]
         IN  Returning(saveState(deleteLayer(w1, index), "Action"), "true")

\* LayerManager.flattenImage
flattenImage(w) ==
    IF Len(w.layers) <= 1 THEN Returning(w, "undefined")
    ELSE LET canvas == copyCanvas(w.mainCanvas)
             w1 == createLayer([w EXCEPT !.layers = <<>>, !.activeLayerIndex = -1],
                               LayerName("Flattened", 0), TRUE, canvas)
         IN  Returning(saveState(setActiveLayer(w1, 0), "Action"), "undefined")

\* LayerManager.updateCurrentLayer : the main canvas is copied into the
\* active layer, then the stack is recomposited.
updateCurrentLayer(w) ==
    IF ~hasActiveLayer(w) THEN w
    ELSE LET activeLayer == At(w.layers, w.activeLayerIndex)
         IN  renderComposite(
                 [w EXCEPT !.layers =
                     WriteCanvas(w.layers, activeLayer.element,
                                 drawImage(clearRect(activeLayer.canvas), DefaultCtx,
                                           w.mainCanvas))])

\* ------------------------------------------------------------------ tools
\* The tools ToolManager.initializeTools registers that are modelled.
Tools == {"select", "pen", "eraser", "line", "rectangle", "circle", "text"}

\* The pixels of the canvas: points <<x, y>> of its single row.
Points == {<<x, 0>> : x \in 0..(CanvasW - 1)}

\* ToolManager.getProperties
getProperties(w) == w.toolManager.properties

\* BaseTool.applyStyles
applyStyles(ctx, properties) ==
    SetAlpha([ctx EXCEPT !.strokeStyle = properties.strokeColor,
                         !.fillStyle = properties.fillColor,
                         !.lineWidth = properties.strokeWidth],
             properties.opacity)

\* The pixels a stroked segment from p to q covers.
OnSegment(p, q, x, y) ==
    /\ Min(p[1], q[1]) <= x /\ x <= Max(p[1], q[1])
    /\ Min(p[2], q[2]) <= y /\ y <= Max(p[2], q[2])
    /\ (q[1] - p[1]) * (y - p[2]) = (q[2] - p[2]) * (x - p[1])

\* beginPath(); moveTo(p); lineTo(q); stroke() on a canvas with context ctx.
\* The line caps are butt (no tool sets lineCap), so a segment of length
\* zero draws nothing.
StrokeLine(canvas, ctx, p, q) ==
    [canvas EXCEPT !.data =
        [i \in 1..(canvas.width * canvas.height) |->
            IF p # q /\ OnSegment(p, q, (i - 1) % canvas.width, (i - 1) \div canvas.width)
            THEN Composite(ColorOf(ctx.strokeStyle), canvas.data[i], ctx)
            ELSE canvas.data[i]]]

\* beginPath(); arc(p, radius); fill() : the disc covers the pixel of p.
FillDisc(canvas, ctx, p) ==
    [canvas EXCEPT !.data =
        [i \in 1..(canvas.width * canvas.height) |->
            IF <<(i - 1) % canvas.width, (i - 1) \div canvas.width>> = p
            THEN Composite(ColorOf(ctx.fillStyle), canvas.data[i], ctx)
            ELSE canvas.data[i]]]

\* props.fillColor && props.fillColor !== 'transparent'
HasFill(properties) == properties.fillColor \notin {"", "transparent"}

\* Whether the rectangle path rect(p, q - p) or its outline covers a pixel:
\* the outline is its four edges, the inside is empty when it has no area.
OnRectEdge(p, q, x, y) ==
    \/ OnSegment(p, <<q[1], p[2]>>, x, y) /\ p[1] # q[1]
    \/ OnSegment(<<q[1], p[2]>>, q, x, y) /\ p[2] # q[2]
    \/ OnSegment(q, <<p[1], q[2]>>, x, y) /\ p[1] # q[1]
    \/ OnSegment(<<p[1], q[2]>>, p, x, y) /\ p[2] # q[2]

InRect(p, q, x, y) ==
    /\ Min(p[1], q[1]) < x /\ x < Max(p[1], q[1])
    /\ Min(p[2], q[2]) < y /\ y < Max(p[2], q[2])

\* Utils.distance, squared: the radius is only compared with distances.
DistanceSq(point1, point2) ==
    (point2[1] - point1[1]) * (point2[1] - point1[1])
        + (point2[2] - point1[2]) * (point2[2] - point1[2])

\* fill() or stroke() with a colour, given the pixels <<x, y>> the path or
\* its outline covers.
Paint(canvas, ctx, color, covered) ==
    [canvas EXCEPT !.data =
        [i \in 1..(canvas.width * canvas.height) |->
            IF <<(i - 1) % canvas.width, (i - 1) \div canvas.width>> \in covered
            THEN Composite(ColorOf(color), canvas.data[i], ctx)
            ELSE canvas.data[i]]]

\* The pixels <<x, y>> of a canvas.
PixelsOf(canvas) == (0..(canvas.width - 1)) \X (0..(canvas.height - 1))

\* beginPath(); rect(p, q - p); fill() if the properties have a fill;
\* stroke().  The fill covers the inside and the stroke the edges.
DrawRect(canvas, ctx, properties, p, q) ==
    LET inside == {xy \in PixelsOf(canvas) : InRect(p, q, xy[1], xy[2])}
        edge   == {xy \in PixelsOf(canvas) : OnRectEdge(p, q, xy[1], xy[2])}
        filled == IF HasFill(properties)
                  THEN Paint(canvas, ctx, ctx.fillStyle, inside)
                  ELSE canvas
    IN  Paint(filled, ctx, ctx.strokeStyle, edge)

\* beginPath(); arc(p, distance(p, q), 0, 2 * PI); fill() if the properties
\* have a fill; stroke().  A circle of radius 0 paints nothing.
DrawCircle(canvas, ctx, properties, p, q) ==
    LET inside == {xy \in PixelsOf(canvas) : DistanceSq(p, xy) < DistanceSq(p, q)}
        edge   == {xy \in PixelsOf(canvas) :
                      p # q /\ DistanceSq(p, xy) = DistanceSq(p, q)}
        filled == IF HasFill(properties)
                  THEN Paint(canvas, ctx, ctx.fillStyle, inside)
                  ELSE canvas
    IN  Paint(filled, ctx, ctx.strokeStyle, edge)

\* tool.onStart(coords, mainCtx, overlayCtx) of ToolManager.getCurrentTool()
onStart(w, coords) ==
    LET tool == w.toolManager.currentTool
    IN  CASE tool = "pen" ->
                [w EXCEPT !.mainCtx = applyStyles(w.mainCtx, getProperties(w)),
                          !.lastPoint = coords]
          [] tool = "eraser" ->
                LET ctx == SetGCO(w.mainCtx, "destination-out")
                IN  [w EXCEPT !.mainCtx = ctx,
                              !.mainCanvas = FillDisc(w.mainCanvas, ctx, coords)]
          [] tool = "text" -> [w EXCEPT !.textPosition = coords]
          [] OTHER -> w

\* onMove of a shape tool that draws its preview on the main surface.
onMovePreviewingOnMain(w, coords) ==
    LET ctx == applyStyles(w.mainCtx, getProperties(w))
    IN  [w EXCEPT !.mainCtx = ctx,
                  !.mainCanvas = StrokeLine(w.mainCanvas, ctx,
                                            w.canvasManager.startPoint, coords)]

\* tool.onMove(coords, mainCtx, overlayCtx, startPoint)
onMove(w, coords) ==
    LET tool == w.toolManager.currentTool
    IN  CASE tool = "pen" ->
                LET ctx == applyStyles(w.mainCtx, getProperties(w))
                IN  [w EXCEPT !.mainCtx = ctx,
                              !.mainCanvas =
                                  IF w.lastPoint # NoPoint
                                  THEN StrokeLine(w.mainCanvas, ctx, w.lastPoint, coords)
                                  ELSE w.mainCanvas,
                              !.lastPoint = coords]
          [] tool = "eraser" ->
                LET ctx == SetGCO(w.mainCtx, "destination-out")
                IN  [w EXCEPT !.mainCtx = ctx,
                              !.mainCanvas = FillDisc(w.mainCanvas, ctx, coords)]
          [] tool = "line" ->
                [w EXCEPT !.overlayCanvas =
                    StrokeLine(clearRect(w.overlayCanvas),
                               applyStyles(DefaultCtx, getProperties(w)),
                               w.canvasManager.startPoint, coords)]
          [] tool = "rectangle" ->
                [w EXCEPT !.overlayCanvas =
                    DrawRect(clearRect(w.overlayCanvas),
                             applyStyles(DefaultCtx, getProperties(w)),
                             getProperties(w), w.canvasManager.startPoint, coords)]
          [] tool = "circle" ->
                [w EXCEPT !.overlayCanvas =
                    DrawCircle(clearRect(w.overlayCanvas),
                               applyStyles(DefaultCtx, getProperties(w)),
                               getProperties(w), w.canvasManager.startPoint, coords)]
          [] OTHER -> w

\* tool.onEnd(mainCtx, overlayCtx, startPoint, path)
onEnd(w) ==
    LET tool == w.toolManager.currentTool
        path == w.canvasManager.currentPath
    IN  CASE tool = "pen" -> [w EXCEPT !.lastPoint = NoPoint]
          [] tool = "eraser" ->
                [w EXCEPT !.mainCtx = SetGCO(w.mainCtx, "source-over")]
          [] tool = "line" ->
                IF Len(path) > 0
                THEN LET ctx == applyStyles(w.mainCtx, getProperties(w))
                     IN  [w EXCEPT !.mainCtx = ctx,
                                   !.mainCanvas =
                                       StrokeLine(w.mainCanvas, ctx,
                                                  w.canvasManager.startPoint,
                                                  Last(path))]
                ELSE w
          [] tool = "rectangle" ->
                IF Len(path) > 0
                THEN LET ctx == applyStyles(w.mainCtx, getProperties(w))
                     IN  [w EXCEPT !.mainCtx = ctx,
                                   !.mainCanvas =
                                       DrawRect(w.mainCanvas, ctx, getProperties(w),
                                                w.canvasManager.startPoint,
                                                Last(path))]
                ELSE w
          [] tool = "circle" ->
                IF Len(path) > 0
                THEN LET ctx == applyStyles(w.mainCtx, getProperties(w))
                     IN  [w EXCEPT !.mainCtx = ctx,
                                   !.mainCanvas =
                                       DrawCircle(w.mainCanvas, ctx, getProperties(w),
                                                  w.canvasManager.startPoint,
                                                  Last(path))]
                ELSE w
          [] OTHER -> w

\* startDrawing that snapshots after the tool's start hook has run.
startDrawingSavingLate(w, coords) ==
    LET w1 == [w EXCEPT !.canvasManager.isDrawing = TRUE,
                        !.canvasManager.startPoint = coords,
                        !.canvasManager.currentPath = <<coords>>]
    IN  Returning(saveState(onStart(w1, coords), "Action"), "undefined")

\* A text is its lines in turn; a line is "" when it holds only white
\* space.  text.trim() drops the blank lines at both ends.
RECURSIVE trim(_)
trim(text) ==
    IF text = <<>> THEN <<>>
    ELSE IF Head(text) = "" THEN trim(Tail(text))
    ELSE IF Last(text) = "" THEN trim(SubSeq(text, 1, Len(text) - 1))
    ELSE text

\* fontSize * 1.2, in whole pixels.
LineHeight(fontSize) == (fontSize * 12) \div 10

RECURSIVE FillLines(_, _, _, _, _)
\* The lines.forEach of addText from line `index` on: fillText paints the
\* pixel at the line's position when the line has glyphs and the position
\* is on the canvas.
FillLines(canvas, ctx, lines, index, position) ==
    IF index >= Len(lines) THEN canvas
    ELSE LET at == <<position[1], position[2] + index * LineHeight(16)>>
         IN  FillLines(IF At(lines, index) # ""
                       THEN FillDisc(canvas, ctx, at) ELSE canvas,
                       ctx, lines, index + 1, position)

\* TextTool.addText (the modal's font size is 16)
addText(w, text) ==
    IF w.textPosition = NoPoint \/ trim(text) = <<>> THEN w
    ELSE LET ctx == [w.mainCtx EXCEPT
                        !.fillStyle = getProperties(w).strokeColor]
         IN  [w EXCEPT !.mainCtx = ctx,
                       !.mainCanvas = FillLines(w.mainCanvas, ctx, text, 0,
                                                w.textPosition),
                       !.textPosition = NoPoint]

\* -------------------------------------------------------- CanvasManager (2)
\* CanvasManager.startDrawing
startDrawing(w, coords) ==
    LET w1 == [w EXCEPT !.canvasManager.isDrawing = TRUE,
                        !.canvasManager.startPoint = coords,
                        !.canvasManager.currentPath = <<coords>>]
    IN  Returning(onStart(saveState(w1, "Action"), coords), "undefined")

\* CanvasManager.continueDrawing
continueDrawing(w, coords) ==
    IF ~w.canvasManager.isDrawing THEN Returning(w, "undefined")
    ELSE Returning(
             onMove([w EXCEPT !.canvasManager.currentPath = Append(@, coords)],
                    coords),
             "undefined")

\* CanvasManager.stopDrawing
stopDrawing(w) ==
    IF ~w.canvasManager.isDrawing THEN Returning(w, "undefined")
    ELSE LET w1 == onEnd([w EXCEPT !.canvasManager.isDrawing = FALSE])
             w2 == [clearOverlay(w1) EXCEPT !.canvasManager.currentPath = <<>>,
                                            !.canvasManager.startPoint = NoPoint]
         IN  Returning(updateCurrentLayer(w2), "undefined")

\* cancelCurrentOperation that leaves the overlay as the preview drew it.
cancelCurrentOperationKeepingOverlay(w) ==
    IF w.canvasManager.isDrawing
    THEN LET w1 == [w EXCEPT !.canvasManager.isDrawing = FALSE,
                             !.canvasManager.currentPath = <<>>,
                             !.canvasManager.startPoint = NoPoint]
         IN  Returning(undo(w1), "undefined")
    ELSE Returning(w, "undefined")

\* CanvasManager.cancelCurrentOperation
cancelCurrentOperation(w) ==
    IF w.canvasManager.isDrawing
    THEN LET w1 == [clearOverlay(w) EXCEPT
                        !.canvasManager.isDrawing = FALSE,
                        !.canvasManager.currentPath = <<>>,
                        !.canvasManager.startPoint = NoPoint]
         IN  Returning(undo(w1), "undefined")
    ELSE Returning(w, "undefined")

\* CanvasManager.setTool that lets the operation in progress go on.
canvasSetToolKeepingOperation(w, toolName) ==
    [w EXCEPT !.canvasManager.currentTool = toolName, !.ret = "undefined"]

\* CanvasManager.setTool
canvasSetTool(w, toolName) ==
    cancelCurrentOperation([w EXCEPT !.canvasManager.currentTool = toolName])

\* ToolManager.setTool
setTool(w, toolName) ==
    IF toolName \in Tools
    THEN Returning(canvasSetTool([w EXCEPT !.toolManager.currentTool = toolName],
                                 toolName),
                   "undefined")
    ELSE Returning(w, "undefined")

\* ------------------------------------------------------ IllustrationEditor
\* CanvasManager.clearCanvas
clearCanvas(w) ==
    saveState(clearOverlay([w EXCEPT !.mainCanvas = clearRect(w.mainCanvas)]),
              "Action")

\* IllustrationEditor.newDocument, the confirm() answered with OK.  The
\* TypeError of clearHistory ends the handler before its saveState.
newDocument(w) ==
    LET w1 == createDefaultLayer([clearCanvas(w) EXCEPT !.layers = <<>>])
        w2 == clearHistory(w1)
    IN  IF w2.ret = "TypeError" THEN w2
        ELSE Returning(saveState(w2, "New document"), "undefined")

\* IllustrationEditor.saveDocument : the project written to the file.
saveDocument(w) ==
    [version |-> TRUE,
     canvas |-> [present |-> TRUE, width |-> w.mainCanvas.width,
                 height |-> w.mainCanvas.height],
     layers |-> [present |-> TRUE, list |-> exportLayers(w)],
     history |-> [present |-> TRUE, data |-> exportHistory(w) @@ [isArray |-> TRUE]]]

\* loadProject importing the layers before it looks at the other fields.
loadProjectImportingFirst(w, project) ==
    LET w0 == IF project.layers.present THEN importLayers(w, project.layers.list) ELSE w
    IN  IF project.version /\ project.layers.present /\ project.canvas.present
        THEN LET w1 == resizeCanvas(w0, project.canvas.width, project.canvas.height)
             IN  Returning(IF project.history.present
                           THEN importHistory(w1, project.history.data)
                           ELSE w1,
                           "undefined")
        ELSE Returning(w0, "undefined")

\* IllustrationEditor.loadProject : every exception is caught and reported
\* with an alert.
loadProject(w, project) ==
    IF project.version /\ project.layers.present /\ project.canvas.present
    THEN LET w1 == resizeCanvas(importLayers(w, project.layers.list),
                                project.canvas.width, project.canvas.height)
         IN  Returning(IF project.history.present
                       THEN importHistory(w1, project.history.data)
                       ELSE w1,
                       "undefined")
    ELSE Returning(w, "undefined")

\* ------------------------------------------------- rate-limited snapshots
\* One unit of the clock is 50 ms.
ThrottleLimit == 2

DebounceWait == 6

\* setTimeout(callback, delay) : one more timeout armed; its id is the new
\* timing.timerId.
setTimeout(w, callback, description, delay) ==
    LET id == w.timing.timerId + 1
    IN  [w EXCEPT !.timing.timerId = id,
                  !.timing.timers = @ \cup {[id |-> id, callback |-> callback,
                                             description |-> description,
                                             due |-> w.timing.now + delay]}]

\* clearTimeout(id) : an id that is not armed (or undefined, 0) is ignored.
clearTimeout(w, id) ==
    [w EXCEPT !.timing.timers = {t \in @ : t.id # id}]

\* HistoryManager.saveStateThrottled : Utils.throttle around saveState.
saveStateThrottled(w, description) ==
    IF ~w.timing.inThrottle
    THEN LET w1 == saveState(w, description)
             w2 == [w1 EXCEPT !.timing.inThrottle = TRUE]
         IN  Returning(setTimeout(w2, "release", description, ThrottleLimit),
                       "undefined")
    ELSE Returning(w, "undefined")

\* The timeout of Utils.throttle : () => inThrottle = false.
release(w, timer) ==
    [clearTimeout(w, timer.id) EXCEPT !.timing.inThrottle = FALSE]

\* Utils.debounce without the clearTimeout of the call.
saveStateDebouncedKeepingTimeout(w, description) ==
    LET w1 == setTimeout(w, "later", description, DebounceWait)
    IN  Returning([w1 EXCEPT !.timing.timeout = w1.timing.timerId], "undefined")

\* HistoryManager.saveStateDebounced : Utils.debounce around saveState.
saveStateDebounced(w, description) ==
    LET w1 == setTimeout(clearTimeout(w, w.timing.timeout), "later", description,
                         DebounceWait)
    IN  Returning([w1 EXCEPT !.timing.timeout = w1.timing.timerId], "undefined")

\* The timeout of Utils.debounce : clearTimeout(timeout); func(...args).
later(w, timer) ==
    saveState(clearTimeout(clearTimeout(w, timer.id), w.timing.timeout),
              timer.description)

\* ------------------------------------------------------------ ImageEditor
\* A number n / d stored into a Uint8ClampedArray: rounded to the nearest
\* integer, halfway cases to the even one, and clamped into 0..255.
ToUint8Clamped(n, d) ==
    LET q == n \div d
        r == n % d
        rounded == IF 2 * r < d THEN q
                   ELSE IF 2 * r > d THEN q + 1
                   ELSE IF q % 2 = 0 THEN q ELSE q + 1
    IN  clamp(rounded, 0, 255)

\* CanvasManager.getImageData : the pixels of the whole main canvas.
getImageData(w) ==
    [width |-> w.mainCanvas.width, height |-> w.mainCanvas.height,
     data |-> w.mainCanvas.data]

\* A pixel as the canvas gives it back after storing it premultiplied.
Stored(p) ==
    IF p[4] = 0 THEN Transparent
    ELSE LET back(k) == Min(255, RDiv(RDiv(p[k] * p[4], 255) * 255, p[4]))
         IN  <<back(1), back(2), back(3), p[4]>>

\* CanvasManager.putImageData : the pixels replace those of the main
\* canvas, which is then pulled into the active layer.
putImageData(w, imageData) ==
    updateCurrentLayer(
        [w EXCEPT !.mainCanvas.data =
            [i \in 1..Len(w.mainCanvas.data) |->
                IF i <= Len(imageData.data) THEN Stored(imageData.data[i])
                ELSE w.mainCanvas.data[i]]])

\* ImageEditor.saveOriginalImageData
saveOriginalImageData(w) == [w EXCEPT !.originalImageData = getImageData(w)]

\* invertColors that takes the colour bytes from 256 and lets the array
\* clamp the result.
invertColorsFrom256(imageData) ==
    [imageData EXCEPT !.data =
        [i \in 1..Len(imageData.data) |->
            LET p == imageData.data[i]
            IN  <<Min(255, 256 - p[1]), Min(255, 256 - p[2]),
                  Min(255, 256 - p[3]), p[4]>>]]

\* ImageEditor.invertColors
invertColors(imageData) ==
    [imageData EXCEPT !.data =
        [i \in 1..Len(imageData.data) |->
            LET p == imageData.data[i]
            IN  <<255 - p[1], 255 - p[2], 255 - p[3], p[4]>>]]

\* convertToGrayscale with weights 0.3, 0.59, 0.12, which sum to 1.01.
convertToGrayscaleHeavy(imageData) ==
    [imageData EXCEPT !.data =
        [i \in 1..Len(imageData.data) |->
            LET p == imageData.data[i]
                gray == ToUint8Clamped(p[1] * 300 + p[2] * 590 + p[3] * 120, 1000)
            IN  <<gray, gray, gray, p[4]>>]]

\* ImageEditor.convertToGrayscale : the luma, in thousandths, is stored
\* into the three colour bytes.
convertToGrayscale(imageData) ==
    [imageData EXCEPT !.data =
        [i \in 1..Len(imageData.data) |->
            LET p == imageData.data[i]
                gray == ToUint8Clamped(p[1] * 299 + p[2] * 587 + p[3] * 114, 1000)
            IN  <<gray, gray, gray, p[4]>>]]

\* The indices into data of the pixels of the window of `radius` around
\* (x, y) that lie on the surface.
Window(imageData, x, y, radius) ==
    {ny * imageData.width + nx + 1 :
        <<nx, ny>> \in {c \in ((x - radius)..(x + radius)) \X ((y - radius)..(y + radius)) :
                           /\ c[1] >= 0 /\ c[1] < imageData.width
                           /\ c[2] >= 0 /\ c[2] < imageData.height}}

RECURSIVE SumChannel(_, _, _)
\* The sum of channel k of the pixels of data at the indices idxs.
SumChannel(data, idxs, k) ==
    IF idxs = {} THEN 0
    ELSE LET i == CHOOSE j \in idxs : TRUE
         IN  data[i][k] + SumChannel(data, idxs \ {i}, k)

\* ImageEditor.applyBlur : every pixel of the output is averaged from the
\* input, the output is copied back at the end.
applyBlur(imageData, radius) ==
    [imageData EXCEPT !.data =
        [i \in 1..Len(imageData.data) |->
            LET idxs == Window(imageData, (i - 1) % imageData.width,
                               (i - 1) \div imageData.width, radius)
                avg(k) == ToUint8Clamped(SumChannel(imageData.data, idxs, k),
                                         Cardinality(idxs))
            IN  <<avg(1), avg(2), avg(3), avg(4)>>]]

\* The filters of the ImageEditor that are followed here; the others
\* (brightness, contrast, sepia, sharpen, emboss) write the buffer alike.
FilterTypes == {"invert", "grayscale", "blur"}

\* ImageEditor.applyFilter that snapshots before it writes the pixels.
applyFilterSavingFirst(w, filterType) ==
    IF w.originalImageData = NoImageData THEN Returning(w, "undefined")
    ELSE LET imageData == getImageData(w)
             filtered == CASE filterType = "blur" -> applyBlur(imageData, 2)
                           [] filterType = "grayscale" -> convertToGrayscale(imageData)
                           [] filterType = "invert" -> invertColors(imageData)
                           [] OTHER -> imageData
         IN  Returning(putImageData(saveState(w, "Action"), filtered), "undefined")

\* ImageEditor.applyFilter
applyFilter(w, filterType) ==
    IF w.originalImageData = NoImageData THEN Returning(w, "undefined")
    ELSE LET imageData == getImageData(w)
             filtered == CASE filterType = "blur" -> applyBlur(imageData, 2)
                           [] filterType = "grayscale" -> convertToGrayscale(imageData)
                           [] filterType = "invert" -> invertColors(imageData)
                           [] OTHER -> imageData
         IN  Returning(saveState(putImageData(w, filtered), "Action"), "undefined")

\* ImageEditor.resetToOriginal
resetToOriginal(w) ==
    IF w.originalImageData # NoImageData
    THEN Returning(saveState(putImageData(w, w.originalImageData), "Action"),
                   "undefined")
    ELSE Returning(w, "undefined")

RECURSIVE BlurInPlace(_, _, _)
\* The 'blur' loop of Utils.applyFilter from pixel i (0-based) on: each
\* pixel's colour is averaged from data as it is by then and stored back
\* into data; alpha is not touched.
BlurInPlace(imageData, i, radius) ==
    IF i >= imageData.width * imageData.height THEN imageData
    ELSE LET idxs == Window(imageData, i % imageData.width,
                            i \div imageData.width, radius)
             avg(k) == ToUint8Clamped(SumChannel(imageData.data, idxs, k),
                                      Cardinality(idxs))
         IN  BlurInPlace([imageData EXCEPT
                             !.data[i + 1] = <<avg(1), avg(2), avg(3), @[4]>>],
                         i + 1, radius)

\* Utils.applyFilter, with the intensity in percent.  It has no case for
\* 'invert': the data is returned as it came.
utilsApplyFilter(imageData, filterType, intensity) ==
    CASE filterType = "grayscale" ->
            [imageData EXCEPT !.data =
                [i \in 1..Len(imageData.data) |->
                    LET p == imageData.data[i]
                        gray == p[1] * 299 + p[2] * 587 + p[3] * 114
                        mix(k) == ToUint8Clamped(
                                      gray * intensity + p[k] * 1000 * (100 - intensity),
                                      100000)
                    IN  <<mix(1), mix(2), mix(3), p[4]>>]]
      [] filterType = "blur" ->
            BlurInPlace(imageData, 0, (intensity * 5) \div 100)
      [] OTHER -> imageData

\* CanvasManager.applyFilter
canvasApplyFilter(w, filterType, intensity) ==
    LET filteredData == utilsApplyFilter(getImageData(w), filterType, intensity)
    IN  Returning(saveState(putImageData(w, filteredData), "Action"), "undefined")

\* CanvasManager.importImage followed by the rest of ImageEditor.loadImage,
\* for an image within 1200 x 800: the snapshot is taken before the image
\* is pulled into the active layer.
loadImage(w, img) ==
    LET w1 == resizeCanvas(w, img.width, img.height)
        w2 == [w1 EXCEPT !.mainCanvas = drawImage(w1.mainCanvas, w1.mainCtx, img)]
    IN  Returning(saveOriginalImageData(updateCurrentLayer(saveState(w2, "Action"))),
                  "undefined")

\* ------------------------------------------------------------------- Init
\* new HistoryManager(), new CanvasManager(), new ToolManager(), before
\* new LayerManager() has run.
Constructed ==
    [layers |-> <<>>, activeLayerIndex |-> -1, layerIdCounter |-> 0,
     mainCanvas |-> NewCanvas(CanvasW, 1), mainCtx |-> DefaultCtx,
     overlayCanvas |-> NewCanvas(CanvasW, 1),
     history |-> <<>>, currentIndex |-> -1,
     toolManager |->
         [currentTool |-> "select",
          properties |-> [strokeColor |-> "#000000", fillColor |-> "#ffffff",
                          strokeWidth |-> 2, opacity |-> 100, fontSize |-> 16,
                          fontFamily |-> "Arial", bold |-> FALSE, italic |-> FALSE]],
     canvasManager |-> [currentTool |-> "select", isDrawing |-> FALSE,
                        startPoint |-> NoPoint, currentPath |-> <<>>],
     lastPoint |-> NoPoint, textPosition |-> NoPoint,
     originalImageData |-> NoImageData, pending |-> EmptyBag,
     timing |-> [now |-> 0, timers |-> {}, timerId |-> 0, inThrottle |-> FALSE,
                 timeout |-> 0],
     initTimer |-> TRUE, ret |-> "undefined"]

Op(name, args) == [name |-> name, args |-> args]

\* IllustrationEditor.init has run; its 'Initial state' timeout is armed.
InitWorld == Returning(createDefaultLayer(Constructed), "undefined")

\* The live document: the layer stack and the main surface.
Doc(w) ==
    [layers |-> w.layers, activeLayerIndex |-> w.activeLayerIndex,
     mainCanvas |-> w.mainCanvas]

\* A session of n user commands begins.
Begin(n) ==
    /\ layers = InitWorld.layers
    /\ activeLayerIndex = InitWorld.activeLayerIndex
    /\ layerIdCounter = InitWorld.layerIdCounter
    /\ mainCanvas = InitWorld.mainCanvas
    /\ mainCtx = InitWorld.mainCtx
    /\ overlayCanvas = InitWorld.overlayCanvas
    /\ history = InitWorld.history
    /\ currentIndex = InitWorld.currentIndex
    /\ toolManager = InitWorld.toolManager
    /\ canvasManager = InitWorld.canvasManager
    /\ lastPoint = InitWorld.lastPoint
    /\ textPosition = InitWorld.textPosition
    /\ originalImageData = InitWorld.originalImageData
    /\ pending = InitWorld.pending
    /\ timing = InitWorld.timing
    /\ initTimer = InitWorld.initTimer
    /\ ret = InitWorld.ret
    /\ op = Op("init", <<>>)
    /\ downDoc = <<>>
    /\ budget = n

Init == Begin(MaxCommands)

\* ---------------------------------------------------------------- actions
\* Commands that belong to a tool operation in progress.
OperationCommands == {"continueDrawing", "cancelCurrentOperation", "setTool"}

\* The user command `name` is handled and runs to completion, which uses
\* up one of the session's commands.  downDoc remembers the document at
\* the pointerDown of the operation in progress or just cancelled.
Do(w, name, args) ==
    /\ budget' = budget - 1
    /\ downDoc' = IF name = "startDrawing" THEN <<Doc(World)>>
                  ELSE IF canvasManager.isDrawing /\ name \in OperationCommands
                       THEN downDoc
                       ELSE <<>>
    /\ Becomes(w, Op(name, args))

\* Indices handed to the layer operations: in range and just out of range.
Indices == -1..Len(layers)

\* The 'Initial state' timeout of IllustrationEditor.init fires.
InitialStateSave ==
    /\ budget > 0
    /\ initTimer
    /\ Do(Returning(saveState([World EXCEPT !.initTimer = FALSE], "Initial state"),
                    "undefined"),
          "saveState", <<>>)

\* undoBtn click, Ctrl+Z
Undo ==
    /\ budget > 0
    /\ Do(undo(World), "undo", <<>>)

\* redoBtn click, Ctrl+Y, Ctrl+Shift+Z
Redo ==
    /\ budget > 0
    /\ Do(redo(World), "redo", <<>>)

JumpToState ==
    /\ budget > 0
    /\ \E i \in -1..Len(history) : Do(jumpToState(World, i), "jumpToState", <<i>>)

ClearHistory ==
    /\ budget > 0
    /\ Do(clearHistory(World), "clearHistory", <<>>)

\* visibilitychange
OptimizeHistory ==
    /\ budget > 0
    /\ Do(optimizeHistory(World), "optimizeHistory", <<>>)

\* History data a project file can hold: none, or the exported log,
\* emptied, as it is, or repeated up to one entry more than the cap, with
\* a currentIndex below, at either end of, or above its range.
HistoryInputs ==
    {NoHistoryData} \cup
    UNION {{[history |-> SubSeq(history \o history, 1, n), currentIndex |-> ci,
             isArray |-> TRUE] : ci \in {-1, 0, n - 1, n}} :
           n \in {0, Len(history), Min(2 * Len(history), maxHistorySize + 1)}}

ImportHistory ==
    /\ budget > 0
    /\ \E d \in HistoryInputs : Do(importHistory(World, d), "importHistory", <<>>)

\* An image load completes: any of the loads in flight.
ImageLoaded ==
    \E load \in BagToSet(pending) :
        LET w == [World EXCEPT !.pending = pending (-) SetToBag({load})]
        IN  /\ Becomes(Returning(IF load.kind = "canvas" THEN canvasLoaded(w, load)
                                 ELSE layerLoaded(w, load),
                                 ret),
                       op)
            /\ UNCHANGED <<budget, downDoc>>

AddLayer ==
    /\ budget > 0
    /\ Do(addLayer(World, LayerName("", 0)), "addLayer", <<>>)

DeleteLayer ==
    /\ budget > 0
    /\ \E i \in Indices : Do(deleteLayer(World, i), "deleteLayer", <<i>>)

DuplicateLayer ==
    /\ budget > 0
    /\ \E i \in Indices : Do(duplicateLayer(World, i), "duplicateLayer", <<i>>)

SetActiveLayer ==
    /\ budget > 0
    /\ \E i \in Indices : Do(setActiveLayer(World, i), "setActiveLayer", <<i>>)

ToggleLayerVisibility ==
    /\ budget > 0
    /\ \E i \in Indices : Do(toggleLayerVisibility(World, i), "toggleLayerVisibility", <<i>>)

\* Opacities asked for: half, and beyond full.
OpacityInputs == {50, 150}

SetLayerOpacityTo(i, o) ==
    /\ budget > 0
    /\ Do(setLayerOpacity(World, i, o), "setLayerOpacity", <<i, o>>)

SetLayerOpacity == \E i \in Indices, o \in OpacityInputs : SetLayerOpacityTo(i, o)

BlendModes == {"normal", "multiply"}

SetLayerBlendMode ==
    /\ budget > 0
    /\ \E i \in Indices, m \in BlendModes :
           Do(setLayerBlendMode(World, i, m), "setLayerBlendMode", <<i>>)

MoveLayer ==
    /\ budget > 0
    /\ \E f \in Indices, t \in Indices : Do(moveLayer(World, f, t), "moveLayer", <<f, t>>)

MergeDown ==
    /\ budget > 0
    /\ \E i \in Indices : Do(mergeDown(World, i), "mergeDown", <<i>>)

FlattenImage ==
    /\ budget > 0
    /\ Do(flattenImage(World), "flattenImage", <<>>)

\* mousedown, touchstart
StartDrawing ==
    /\ budget > 0
    /\ \E p \in Points : Do(startDrawing(World, p), "startDrawing", <<p>>)

\* mousemove, touchmove
ContinueDrawing ==
    /\ budget > 0
    /\ \E p \in Points : Do(continueDrawing(World, p), "continueDrawing", <<p>>)

\* mouseup, mouseleave, touchend
StopDrawing ==
    /\ budget > 0
    /\ Do(stopDrawing(World), "stopDrawing", <<>>)

\* Escape
CancelCurrentOperation ==
    /\ budget > 0
    /\ Do(cancelCurrentOperation(World), "cancelCurrentOperation", <<>>)

\* tool button click, tool shortcut key
SetToolTo(t) ==
    /\ budget > 0
    /\ Do(setTool(World, t), "setTool", <<>>)

SetTool == \E t \in Tools : SetToolTo(t)

\* Texts typed into the modal: nothing, blank, one line, two lines.
Texts == {<<>>, <<"">>, <<"a">>, <<"a", "b">>}

\* addTextBtn click, Enter in the text input
AddText ==
    /\ budget > 0
    /\ \E typed \in Texts :
           LET text == trim(typed)
           IN  Do(Returning(IF text # <<>>
                            THEN saveState(addText(World, text), "Add text")
                            ELSE World,
                            "undefined"),
                  "addText", <<text>>)

\* Colours of the pixels of uploaded images: opaque primaries and mixed
\* colours, a transparent and a half-transparent pixel.
Palette ==
    {Black, Red, Blue, <<255, 255, 255, 255>>, <<100, 150, 200, 255>>,
     <<1, 2, 3, 255>>, Transparent, <<200, 100, 50, 128>>}

\* Image files uploaded: as large as the canvas.
Images ==
    {[width |-> CanvasW, height |-> 1, data |-> d] : d \in [1..CanvasW -> Palette]}

\* imageUpload change, openFile with an image file: the image has loaded.
LoadImage ==
    /\ budget > 0
    /\ \E img \in Images : Do(loadImage(World, img), "loadImage", <<>>)

\* A filter asked of the ImageEditor.
ApplyFilter ==
    /\ budget > 0
    /\ \E filterType \in FilterTypes :
           Do(applyFilter(World, filterType), "applyFilter", <<filterType>>)

\* Intensities asked of CanvasManager.applyFilter, in percent: none, full.
Intensities == {0, 100}

\* A filter asked of the CanvasManager.
CanvasApplyFilter ==
    /\ budget > 0
    /\ \E filterType \in FilterTypes, intensity \in Intensities :
           Do(canvasApplyFilter(World, filterType, intensity),
              "canvasApplyFilter", <<filterType, intensity>>)

ResetToOriginal ==
    /\ budget > 0
    /\ Do(resetToOriginal(World), "resetToOriginal", <<>>)

\* Uploaded images of one opaque colour, red or blue.
UniformImages ==
    {img \in Images : \A i \in 1..Len(img.data) : img.data[i] = img.data[1]
                                                    /\ img.data[1] \in {Red, Blue}}

\* An image of one colour has loaded.
LoadUniformImage ==
    /\ budget > 0
    /\ \E img \in UniformImages : Do(loadImage(World, img), "loadImage", <<>>)

\* The clock runs up to this many units.
MaxTime == 8

\* Descriptions handed to saveStateThrottled and to saveStateDebounced.
ThrottledDescriptions == {"Stroke"}

DebouncedDescriptions == {"Action", "Resize"}

\* Time passes.  A timeout that is due may still run later.
Tick ==
    /\ timing.now < MaxTime
    /\ Becomes([World EXCEPT !.timing.now = @ + 1], op)
    /\ UNCHANGED <<budget, downDoc>>

\* A timeout that is due runs its callback.
TimerFired ==
    \E timer \in timing.timers :
        /\ timer.due <= timing.now
        /\ Becomes(Returning(IF timer.callback = "later" THEN later(World, timer)
                             ELSE release(World, timer),
                             ret),
                   Op(timer.callback, <<timer.description>>))
        /\ UNCHANGED <<budget, downDoc>>

SaveStateThrottled ==
    /\ budget > 0
    /\ \E d \in ThrottledDescriptions :
           Do(saveStateThrottled(World, d), "saveStateThrottled", <<d>>)

SaveStateDebounced ==
    /\ budget > 0
    /\ \E d \in DebouncedDescriptions :
           Do(saveStateDebounced(World, d), "saveStateDebounced", <<d>>)

\* Project files written by an earlier session of the editor: the document
\* after one addLayer, saved.
SavedProjects == {saveDocument(addLayer(InitWorld, LayerName("", 0)))}

\* A project file of an earlier session is opened.
OpenProject ==
    /\ budget > 0
    /\ \E project \in SavedProjects :
           Do(loadProject(World, project), "loadProject",
              <<project.version, project.layers.present, project.canvas.present>>)

\* Image files narrower than the canvas, of one opaque colour.
NarrowImages ==
    {[width |-> CanvasW - 1, height |-> 1, data |-> [i \in 1..(CanvasW - 1) |-> c]] :
        c \in {Red, Blue}}

\* A narrower image has loaded.
LoadNarrowImage ==
    /\ budget > 0
    /\ \E img \in NarrowImages : Do(loadImage(World, img), "loadImage", <<img.width>>)

\* Ctrl+N
ClearCanvas ==
    /\ budget > 0
    /\ Do(Returning(clearCanvas(World), "undefined"), "clearCanvas", <<>>)

\* Stroke colours the colour input is set to.
StrokeColors == {"#000000", "#ff0000"}

\* strokeColor change
SetStrokeColor ==
    /\ budget > 0
    /\ \E c \in StrokeColors :
           Do(Returning([World EXCEPT !.toolManager.properties.strokeColor = c],
                        "undefined"),
              "strokeColor", <<>>)

\* opacity input
SetOpacity ==
    /\ budget > 0
    /\ \E o \in {50, 100} :
           Do(Returning([World EXCEPT !.toolManager.properties.opacity = o],
                        "undefined"),
              "opacity", <<o>>)

NewDocument ==
    /\ budget > 0
    /\ Do(newDocument(World), "newDocument", <<>>)

\* Project files opened: the project as saveDocument writes it now, the
\* same without its history, with an empty layer list, and with one of
\* the required fields missing.
ProjectInputs ==
    LET saved == saveDocument(World)
    IN  {saved,
         [saved EXCEPT !.history.present = FALSE],
         [saved EXCEPT !.layers.list = <<>>],
         [saved EXCEPT !.version = FALSE],
         [saved EXCEPT !.layers.present = FALSE],
         [saved EXCEPT !.canvas.present = FALSE]}

LoadProject ==
    /\ budget > 0
    /\ \E project \in ProjectInputs :
           Do(loadProject(World, project), "loadProject",
              <<project.version, project.layers.present, project.canvas.present>>)

\* --------------------------------------------------------- specifications
\* Every handler of the editor.
Next ==
    \/ InitialStateSave
    \/ Undo
    \/ Redo
    \/ JumpToState
    \/ ClearHistory
    \/ OptimizeHistory
    \/ ImportHistory
    \/ ImageLoaded
    \/ AddLayer
    \/ DeleteLayer
    \/ DuplicateLayer
    \/ SetActiveLayer
    \/ ToggleLayerVisibility
    \/ SetLayerOpacity
    \/ SetLayerBlendMode
    \/ MoveLayer
    \/ MergeDown
    \/ FlattenImage
    \/ StartDrawing
    \/ ContinueDrawing
    \/ StopDrawing
    \/ CancelCurrentOperation
    \/ SetTool
    \/ ClearCanvas
    \/ SetStrokeColor
    \/ SetOpacity
    \/ AddText
    \/ LoadImage
    \/ ApplyFilter
    \/ CanvasApplyFilter
    \/ ResetToOriginal
    \/ SaveStateThrottled
    \/ SaveStateDebounced
    \/ Tick
    \/ TimerFired
    \/ NewDocument
    \/ LoadProject

Spec == Init /\ [][Next]_vars

\* The History Log: every operation of HistoryManager, with clearCanvas
\* and addLayer as the commands that snapshot.
NextHistory ==
    \/ InitialStateSave
    \/ ClearCanvas
    \/ AddLayer
    \/ Undo
    \/ Redo
    \/ JumpToState
    \/ ClearHistory
    \/ OptimizeHistory
    \/ ImportHistory
    \/ ImageLoaded

SpecHistory == Init /\ [][NextHistory]_vars

\* The Tool State Machine: pointer events, Escape and tool switches.
NextTools ==
    \/ InitialStateSave
    \/ SetTool
    \/ StartDrawing
    \/ ContinueDrawing
    \/ StopDrawing
    \/ CancelCurrentOperation
    \/ ImageLoaded

SpecTools == Init /\ [][NextTools]_vars

\* Snapshots, undo and redo.
NextUndoRedo ==
    \/ InitialStateSave
    \/ ClearCanvas
    \/ AddLayer
    \/ Undo
    \/ Redo
    \/ ImageLoaded

SpecUndoRedo == Init /\ [][NextUndoRedo]_vars

\* Restores that run to completion: every command is issued only when no
\* image load is in flight.
NextSettled ==
    \/ pending = EmptyBag /\ InitialStateSave
    \/ pending = EmptyBag /\ AddLayer
    \/ pending = EmptyBag /\ SetStrokeColor
    \/ pending = EmptyBag /\ Undo
    \/ pending = EmptyBag /\ Redo
    \/ pending = EmptyBag /\ JumpToState
    \/ ImageLoaded

SpecSettled == Init /\ [][NextSettled]_vars

\* The Layer Stack: every operation of LayerManager, with undo and redo.
NextLayers ==
    \/ AddLayer
    \/ DeleteLayer
    \/ DuplicateLayer
    \/ SetActiveLayer
    \/ ToggleLayerVisibility
    \/ SetLayerOpacity
    \/ SetLayerBlendMode
    \/ MoveLayer
    \/ MergeDown
    \/ FlattenImage
    \/ Undo
    \/ Redo
    \/ ImageLoaded

SpecLayers == Init /\ [][NextLayers]_vars

\* Deleting layers while snapshots are restored.
NextDelete ==
    \/ AddLayer
    \/ DeleteLayer
    \/ Undo
    \/ Redo
    \/ ImageLoaded

SpecDelete == Begin(MaxCommands + 1) /\ [][NextDelete]_vars

\* Snapshots taken by pen strokes, layer commands and merges, with property
\* changes and undo in between.
NextEntries ==
    \/ InitialStateSave
    \/ SetToolTo("pen")
    \/ StartDrawing
    \/ ContinueDrawing
    \/ StopDrawing
    \/ AddLayer
    \/ MergeDown
    \/ SetStrokeColor
    \/ Undo
    \/ ImageLoaded

SpecEntries == Begin(MaxCommands + 1) /\ [][NextEntries]_vars

\* Pen and eraser operations one after the other, ended in every way.
NextEraser ==
    \/ SetToolTo("pen")
    \/ SetToolTo("eraser")
    \/ StartDrawing
    \/ ContinueDrawing
    \/ StopDrawing
    \/ CancelCurrentOperation
    \/ ImageLoaded

SpecEraser == Begin(MaxCommands + 2) /\ [][NextEraser]_vars

\* Line, rectangle and circle operations, on one layer and on several.
NextShapes ==
    \/ SetToolTo("line")
    \/ SetToolTo("rectangle")
    \/ SetToolTo("circle")
    \/ SetOpacity
    \/ AddLayer
    \/ StartDrawing
    \/ ContinueDrawing
    \/ StopDrawing
    \/ ImageLoaded

SpecShapes == Begin(MaxCommands + 1) /\ [][NextShapes]_vars

\* The text tool: an insertion point is captured, a text is confirmed.
NextText ==
    \/ InitialStateSave
    \/ SetToolTo("text")
    \/ SetStrokeColor
    \/ StartDrawing
    \/ StopDrawing
    \/ AddText
    \/ AddLayer

SpecText == Begin(MaxCommands + 1) /\ [][NextText]_vars

\* The filter pipeline: one image is uploaded, and filters are asked for
\* through both entry points before and after.
NextFilters ==
    \/ originalImageData = NoImageData /\ LoadImage
    \/ ApplyFilter
    \/ CanvasApplyFilter
    \/ ResetToOriginal

SpecFilters == Begin(MaxCommands) /\ [][NextFilters]_vars

\* Compositing: layers are filled from uploaded images, their opacity and
\* visibility are changed.
NextComposite ==
    \/ LoadUniformImage
    \/ AddLayer
    \/ SetLayerOpacity
    \/ ToggleLayerVisibility

SpecComposite == Begin(MaxCommands + 1) /\ [][NextComposite]_vars

\* Project files: documents of several layers and snapshots are saved and
\* opened again.
NextProject ==
    \/ InitialStateSave
    \/ AddLayer
    \/ ToggleLayerVisibility
    \/ LoadProject
    \/ ImageLoaded

SpecProject == Begin(MaxCommands) /\ [][NextProject]_vars

\* Duplicating: layers are filled from uploaded images, duplicated and
\* drawn on.
NextDuplicate ==
    \/ LoadUniformImage
    \/ DuplicateLayer
    \/ SetActiveLayer
    \/ StartDrawing
    \/ ContinueDrawing
    \/ StopDrawing

SpecDuplicate == Begin(MaxCommands + 1) /\ [][NextDuplicate]_vars

\* Flattening: layers are filled from uploaded images, selected, hidden and
\* flattened.
NextFlatten ==
    \/ LoadUniformImage
    \/ AddLayer
    \/ SetActiveLayer
    \/ ToggleLayerVisibility
    \/ FlattenImage

SpecFlatten == Begin(MaxCommands) /\ [][NextFlatten]_vars

\* Rate-limited snapshots: calls, the clock and the timeouts.
NextTimers ==
    \/ SaveStateThrottled
    \/ SaveStateDebounced
    \/ Tick
    \/ TimerFired

SpecTimers == Begin(MaxCommands) /\ [][NextTimers]_vars

\* New documents: layers are added, the document is started afresh, and
\* the history is walked.
NextDocument ==
    \/ InitialStateSave
    \/ AddLayer
    \/ NewDocument
    \/ Undo
    \/ Redo
    \/ ImageLoaded

SpecDocument == Begin(MaxCommands) /\ [][NextDocument]_vars

\* Selecting: operations of the select tool on stacks of layers that hold
\* uploaded images.
NextSelect ==
    \/ LoadUniformImage
    \/ AddLayer
    \/ ToggleLayerVisibility
    \/ SetToolTo("select")
    \/ StartDrawing
    \/ ContinueDrawing
    \/ StopDrawing

SpecSelect == Begin(MaxCommands + 1) /\ [][NextSelect]_vars

\* Strokes and undo: pen strokes are completed one after another, then
\* undone and redone; commands wait for the image loads of a restore.
NextStrokes ==
    \/ toolManager.currentTool = "select" /\ SetToolTo("pen")
    \/ ~canvasManager.isDrawing /\ SetStrokeColor
    \/ pending = EmptyBag /\ StartDrawing
    \/ ContinueDrawing
    \/ StopDrawing
    \/ pending = EmptyBag /\ ~canvasManager.isDrawing /\ Undo
    \/ pending = EmptyBag /\ ~canvasManager.isDrawing /\ Redo
    \/ ImageLoaded

SpecStrokes == Begin(2 * MaxCommands + 1) /\ [][NextStrokes]_vars

\* Tool operations with the history walked by keyboard while they run.
NextToolHistory ==
    \/ InitialStateSave
    \/ SetTool
    \/ StartDrawing
    \/ ContinueDrawing
    \/ StopDrawing
    \/ Undo
    \/ Redo
    \/ ImageLoaded

SpecToolHistory == Begin(MaxCommands) /\ [][NextToolHistory]_vars

\* Layer ids: every operation that creates, removes or restores layers;
\* commands wait for the image loads of a restore.
NextIds ==
    \/ pending = EmptyBag /\ AddLayer
    \/ pending = EmptyBag /\ DuplicateLayer
    \/ pending = EmptyBag /\ DeleteLayer
    \/ pending = EmptyBag /\ MergeDown
    \/ pending = EmptyBag /\ FlattenImage
    \/ pending = EmptyBag /\ NewDocument
    \/ pending = EmptyBag /\ Undo
    \/ pending = EmptyBag /\ Redo
    \/ pending = EmptyBag /\ OpenProject
    \/ ImageLoaded

SpecIds == Begin(MaxCommands) /\ [][NextIds]_vars

\* Canvas dimensions: images of the canvas's size and narrower ones are
\* imported, layers are added, and the history is walked.
NextSizes ==
    \/ InitialStateSave
    \/ LoadUniformImage
    \/ LoadNarrowImage
    \/ AddLayer
    \/ Undo
    \/ Redo
    \/ ImageLoaded

SpecSizes == Begin(MaxCommands) /\ [][NextSizes]_vars

\* Merging layers that hold a pen stroke.
NextMerge ==
    \/ SetToolTo("pen")
    \/ StartDrawing
    \/ ContinueDrawing
    \/ StopDrawing
    \/ AddLayer
    \/ SetLayerOpacityTo(0, 50)
    \/ MergeDown

SpecMerge == Begin(MaxCommands + 3) /\ [][NextMerge]_vars

\* ----------------------------------------------------------------- claims
\* The step is the handling of the user command `name`.
Command(name) == budget' = budget - 1 /\ op'.name = name

\* C1: in every reachable state of the History Log, after any sequence of
\* saveState, undo, redo, jumpToState, clearHistory, optimizeHistory and
\* importHistory, -1 <= currentIndex < history.length.
C1_CurrentIndexInRange == -1 <= currentIndex /\ currentIndex < Len(history)

\* A log one entry longer than the cap was imported with a currentIndex
\* beyond its end: currentIndex is the last index of the imported log.
C1_Witness ==
    /\ op.name = "importHistory"
    /\ ret = "TypeError"
    /\ Len(history) = maxHistorySize + 1
    /\ currentIndex = maxHistorySize

\* The commands of the History Log specification that call saveState.
SavingCommands == {"saveState", "clearCanvas", "addLayer"}

\* C2: immediately after any saveState call, including one made after one
\* or more undo calls, every entry that was after currentIndex has been
\* discarded, the new entry is the last one, currentIndex is
\* history.length - 1, and a redo issued next fails (returns false).
C2_SaveStateDiscardsRedoTail ==
    [][(\E name \in SavingCommands : Command(name)) =>
        LET kept == SubSeq(history, 1, currentIndex + 1)
            before == SubSeq(history', 1, Len(history') - 1)
        IN  /\ Len(history') >= 1
            /\ before = IF Len(kept) + 1 > maxHistorySize THEN Tail(kept) ELSE kept
            /\ Last(history').canvasData = captureCanvasState(World')
            /\ Last(history').layersData = captureLayersState(World')
            /\ Last(history').properties = capturePropertiesState(World')
            /\ currentIndex' = Len(history') - 1
            /\ redo(World').ret = "false"
            /\ redo(World').history = history'
            /\ redo(World').currentIndex = currentIndex']_vars

\* Two layers were added, the second addition was undone, and clearCanvas
\* then saved a state: the log holds two entries, both of two layers.
C2_Witness ==
    /\ op.name = "clearCanvas"
    /\ layerIdCounter = 3
    /\ Len(history) = 2
    /\ currentIndex = 1
    /\ \A i \in 1..2 : Len(history[i].layersData.layers) = 2

\* C3: for all sequences of snapshot calls followed by any number k of
\* successful undo calls and then k redo calls back to the original depth,
\* the restored document (composite surface, layer stack, tool properties)
\* is identical to the document at that point in history.  The document
\* at that point is the one the entry at currentIndex was captured from;
\* the restore is complete when no image load is in flight.
C3_UndoRedoRestoresDocument ==
    (/\ op.name = "redo"
     /\ ret = "true"
     /\ currentIndex = Len(history) - 1
     /\ pending = EmptyBag)
    => LET entry == At(history, currentIndex)
       IN  /\ captureCanvasState(World) = entry.canvasData
           /\ captureLayersState(World) = entry.layersData
           /\ capturePropertiesState(World) = entry.properties

\* C4: after a cancel (Escape or tool switch) of an Active tool operation,
\* the live document equals the document as it was at that operation's
\* pointerDown, for every history the operation can start from: only the
\* in-progress mutation is discarded, never earlier completed work.  The
\* cancel is complete when no image load is in flight.
C4_CancelRestoresPointerDownDocument ==
    (/\ op.name \in {"cancelCurrentOperation", "setTool"}
     /\ downDoc # <<>>
     /\ pending = EmptyBag)
    => Doc(World) = downDoc[1]

\* C5: in every reachable state, including the states between an
\* undo/redo/jumpTo/project-load and the completion of its image-load
\* callbacks, the layer stack contains at least one layer and
\* activeLayerIndex is a valid index into it.
C5_LayerStackInvariant ==
    /\ Len(layers) >= 1
    /\ 0 <= activeLayerIndex
    /\ activeLayerIndex < Len(layers)

\* C6: deleteLayer on a stack of size 1 always fails (returns false) and
\* leaves the layer sequence, activeLayerIndex and the History Log
\* unchanged, whatever index is passed.
C6_DeleteLastLayerFails ==
    [][(Command("deleteLayer") /\ Len(layers) = 1) =>
        /\ ret' = "false"
        /\ UNCHANGED <<layers, activeLayerIndex, history, currentIndex>>]_vars

\* deleteLayer(0) was refused on a stack of one layer.
C6_Witness ==
    /\ op = Op("deleteLayer", <<0>>)
    /\ ret = "false"
    /\ Len(layers) = 1
    /\ hasActiveLayer(World)

\* The ids of the layers, bottom to top.
Ids(ls) == [k \in 1..Len(ls) |-> ls[k].id]

\* C7: deleteLayer with an in-range index on a stack of size N > 1 always
\* leaves a stack of size N - 1 with the other layers in their prior
\* relative order and an activeLayerIndex that is a valid index of the new
\* stack.
C7_DeleteLayerKeepsStackValid ==
    [][(/\ Command("deleteLayer")
        /\ Len(layers) > 1
        /\ op'.args[1] >= 0
        /\ op'.args[1] < Len(layers)) =>
        /\ ret' = "true"
        /\ Len(layers') = Len(layers) - 1
        /\ Ids(layers') = Ids(SpliceOne(layers, op'.args[1]))
        /\ activeLayerIndex' >= 0
        /\ activeLayerIndex' < Len(layers')]_vars

\* The composite of a layer stack: the layers drawn bottom to top onto a
\* cleared surface, as renderComposite draws them.
CompositeOf(ls) == PaintLayers(ls, 0, NewCanvas(CanvasW, 1), DefaultCtx)

\* C8: mergeDown(1) on a two-layer stack produces a one-layer stack whose
\* sole surface equals the composite of the two layers as it was before
\* the merge, with activeLayerIndex 0.
C8_MergeDownKeepsComposite ==
    [][(Command("mergeDown") /\ Len(layers) = 2 /\ op'.args = <<1>>) =>
        /\ Len(layers') = 1
        /\ layers'[1].canvas = CompositeOf(layers)
        /\ activeLayerIndex' = 0]_vars

\* C9: a successful mergeDown appends exactly one new entry to the History
\* Log: history length grows by exactly one when below the cap, and
\* currentIndex advances by exactly one.  With no redo tail to discard and
\* room for two entries below the cap, nothing but the appended entries
\* changes the log's length.
C9_MergeDownSavesOnce ==
    [][(/\ Command("mergeDown")
        /\ ret' = "true"
        /\ currentIndex = Len(history) - 1
        /\ Len(history) + 2 <= maxHistorySize) =>
        /\ Len(history') = Len(history) + 1
        /\ currentIndex' = currentIndex + 1]_vars

\* The layer operations that take one index.
IndexedCommands ==
    {"deleteLayer", "duplicateLayer", "setActiveLayer", "toggleLayerVisibility",
     "setLayerOpacity", "setLayerBlendMode"}

\* index is no index of the layer stack.
OutOfRange(index) == index < 0 \/ index >= Len(layers)

\* C10: any layer operation (deleteLayer, duplicateLayer, setActiveLayer,
\* toggleLayerVisibility, setLayerOpacity, setLayerBlendMode, moveLayer,
\* mergeDown) given an out-of-range index, and mergeDown given the bottom
\* layer's index 0, performs no mutation: the layer sequence, every
\* layer's metadata and surface, activeLayerIndex and the History Log are
\* all unchanged.
C10_InvalidIndexMutatesNothing ==
    [][(\/ /\ \E name \in IndexedCommands : Command(name)
           /\ OutOfRange(op'.args[1])
        \/ /\ Command("moveLayer")
           /\ OutOfRange(op'.args[1]) \/ OutOfRange(op'.args[2])
        \/ /\ Command("mergeDown")
           /\ OutOfRange(op'.args[1]) \/ op'.args[1] = 0) =>
        UNCHANGED <<layers, activeLayerIndex, history, currentIndex>>]_vars

\* mergeDown(0) was refused on a stack of two layers with a snapshot in
\* the log.
C10_Witness ==
    /\ op = Op("mergeDown", <<0>>)
    /\ ret = "false"
    /\ Len(layers) = 2
    /\ Len(history) >= 1

\* C11: undo when currentIndex <= 0 and redo when currentIndex is
\* history.length - 1 return false and are no-ops: history, currentIndex,
\* the live surface, the layer stack and the tool properties are all
\* unchanged (no image load is started), and no error is raised.
C11_BoundaryUndoRedoAreNoOps ==
    [][(\/ Command("undo") /\ currentIndex <= 0
        \/ Command("redo") /\ currentIndex = Len(history) - 1) =>
        /\ ret' = "false"
        /\ UNCHANGED <<history, currentIndex, mainCanvas, layers,
                       activeLayerIndex, toolManager, pending>>]_vars

\* One undo succeeded and the next was refused on the first entry.
C11_Witness ==
    /\ op.name = "undo"
    /\ ret = "false"
    /\ currentIndex = 0
    /\ Len(history) = 2

\* C12: once a successful undo, redo or jumpTo has finished restoring (all
\* of its asynchronous image loads have completed, with no other command
\* in between), the live layer stack has the same layers in the same
\* bottom-to-top order as the target entry's layer export, activeLayerIndex
\* equals the activeLayerIndex stored in that entry, and the tool
\* properties equal the stored ones.  jumpToState has restored when it
\* reaches its updateHistoryUI call.
C12_RestoreReproducesEntry ==
    (/\ \/ op.name \in {"undo", "redo"} /\ ret = "true"
        \/ op.name = "jumpToState" /\ ret = "TypeError"
     /\ pending = EmptyBag)
    => LET entry == At(history, currentIndex)
       IN  /\ exportLayers(World) = entry.layersData.layers
           /\ activeLayerIndex = entry.layersData.activeLayerIndex
           /\ capturePropertiesState(World) = entry.properties

\* C13: an entry never changes while it remains in the log.  A step of a
\* drawing, layer or property command either leaves the log as it is, or
\* takes k snapshots: the entries up to currentIndex are kept as they are
\* and in order, the ones after it are truncated, and the oldest are evicted
\* as far as the cap requires.
C13_EntriesNeverChange ==
    [][\/ history' = history
       \/ \E k \in 1..2 :
            LET kept  == SubSeq(history, 1, currentIndex + 1)
                total == Len(kept) + k
                drop  == Max(0, total - maxHistorySize)
            IN  /\ Len(history') = total - drop
                /\ \A j \in (drop + 1)..Len(kept) : history'[j - drop] = kept[j]]_vars

\* A snapshot is taken after a property change while the log holds an
\* entry with the earlier properties.
C13_Witness ==
    /\ op.name = "addLayer"
    /\ Len(history) >= 2
    /\ history[1].properties.properties.strokeColor
         # history[Len(history)].properties.properties.strokeColor

\* C14: the log never holds more than maxHistorySize entries, in any
\* reachable state, importHistory included.
C14_HistoryWithinCap == Len(history) <= maxHistorySize

\* C15: when optimizeHistory finds the log over its byte budget it discards
\* exactly the oldest floor(0.3 * length) entries and keeps the rest in
\* order, leaves currentIndex inside the remaining log and on the same
\* entry when that entry survived, and raises no error.
C15_OptimizeHistoryEvictsOldest ==
    [][(Command("optimizeHistory") /\ getMemoryUsage(World) > MemoryBudget) =>
        LET itemsToRemove == (Len(history) * 3) \div 10
        IN  /\ history' = SubSeq(history, itemsToRemove + 1, Len(history))
            /\ currentIndex' \in 0..(Len(history') - 1)
            /\ currentIndex >= itemsToRemove
                   => At(history', currentIndex') = At(history, currentIndex)
            /\ ret' # "TypeError"]_vars

\* C16: a pointerDown in Idle makes the operation Active with the start
\* point set and the path holding just that point, and appends exactly one
\* snapshot, taken of the document as it was before the tool's start hook
\* ran.
C16_PointerDownSnapshotsFirst ==
    [][(Command("startDrawing") /\ ~canvasManager.isDrawing) =>
        LET coords == op'.args[1]
            entry  == [timestamp |-> timing.now,
                       description |-> "Action",
                       canvasData |-> captureCanvasState(World),
                       layersData |-> captureLayersState(World),
                       properties |-> capturePropertiesState(World)]
            pushed == Append(SubSeq(history, 1, currentIndex + 1), entry)
        IN  /\ canvasManager'.isDrawing
            /\ canvasManager'.startPoint = coords
            /\ canvasManager'.currentPath = <<coords>>
            /\ history' = IF Len(pushed) > maxHistorySize THEN Tail(pushed)
                          ELSE pushed
            /\ currentIndex' = Len(history') - 1]_vars

\* The eraser's start hook has erased a pixel of a painted surface, and the
\* snapshot of the pointerDown still shows it.
C16_Witness ==
    /\ op.name = "startDrawing"
    /\ canvasManager.isDrawing
    /\ toolManager.currentTool = "eraser"
    /\ Len(history) >= 2
    /\ toDataURL(mainCanvas) # At(history, currentIndex).canvasData.dataURL

\* C17: whenever the operation state is Idle the path is empty, the start
\* point is unset and the overlay is completely clear; while it is Active
\* the path is non-empty and begins with the start point, and each
\* pointerMove appends exactly one point to it.
C17_IdleAndActiveShape ==
    /\ [](IF canvasManager.isDrawing
          THEN /\ canvasManager.currentPath # <<>>
               /\ canvasManager.currentPath[1] = canvasManager.startPoint
          ELSE /\ canvasManager.currentPath = <<>>
               /\ canvasManager.startPoint = NoPoint
               /\ overlayCanvas = clearRect(overlayCanvas))
    /\ [][(Command("continueDrawing") /\ canvasManager.isDrawing) =>
            canvasManager'.currentPath =
                Append(canvasManager.currentPath, op'.args[1])]_vars

\* An operation is Active with a preview on the overlay after a pointerMove.
C17_Witness ==
    /\ canvasManager.isDrawing
    /\ op.name = "continueDrawing"
    /\ Len(canvasManager.currentPath) = 2
    /\ overlayCanvas # clearRect(overlayCanvas)

\* C18: a switch of tool while an operation is Active cancels it: the state
\* is Idle afterwards with an empty path and a clear overlay, and a
\* pointerUp in Idle runs no end hook and copies nothing into the active
\* layer.
C18_ToolSwitchCancels ==
    /\ [][(Command("setTool") /\ canvasManager.isDrawing) =>
            /\ ~canvasManager'.isDrawing
            /\ canvasManager'.currentPath = <<>>
            /\ canvasManager'.startPoint = NoPoint
            /\ overlayCanvas' = clearRect(overlayCanvas)]_vars
    /\ [][(Command("stopDrawing") /\ ~canvasManager.isDrawing) =>
            UNCHANGED <<mainCanvas, mainCtx, overlayCanvas, layers,
                        activeLayerIndex, lastPoint, canvasManager, history,
                        currentIndex, pending>>]_vars

\* The tool was switched while an operation was Active.
C18_Witness ==
    /\ op.name = "setTool"
    /\ downDoc # <<>>
    /\ ~canvasManager.isDrawing

\* The tools that preview a shape on the overlay.
ShapeTools == {"line", "rectangle", "circle"}

\* The main surface with the current tool's shape painted from the start
\* point to the last point of the path.
ShapeCommitted ==
    LET tool  == toolManager.currentTool
        props == getProperties(World)
        ctx   == applyStyles(mainCtx, props)
        start == canvasManager.startPoint
        end   == Last(canvasManager.currentPath)
    IN  CASE tool = "line" -> StrokeLine(mainCanvas, ctx, start, end)
          [] tool = "rectangle" -> DrawRect(mainCanvas, ctx, props, start, end)
          [] tool = "circle" -> DrawCircle(mainCanvas, ctx, props, start, end)

\* C19: with the line, rectangle or circle tool the main surface is left
\* as it is by pointerDown and by every pointerMove; the pointerUp paints on
\* it the shape from the start point to the last point of the path: the
\* active layer receives the old surface with that shape, and on a document
\* of one layer, or with no active layer, the surface shows exactly that.
C19_ShapeCommitsAtPointerUp ==
    /\ [][(/\ Command("startDrawing") \/ Command("continueDrawing")
           /\ toolManager.currentTool \in ShapeTools)
          => mainCanvas' = mainCanvas]_vars
    /\ [][(/\ Command("stopDrawing")
           /\ canvasManager.isDrawing
           /\ toolManager.currentTool \in ShapeTools)
          => IF hasActiveLayer(World)
             THEN /\ At(layers', activeLayerIndex).canvas = ShapeCommitted
                  /\ Len(layers) = 1 => mainCanvas' = ShapeCommitted
             ELSE mainCanvas' = ShapeCommitted]_vars

\* A pointerUp has painted a shape whose preview was on the overlay.
C19_Witness ==
    /\ op.name = "stopDrawing"
    /\ toolManager.currentTool = "circle"
    /\ mainCanvas # clearRect(mainCanvas)
    /\ mainCanvas.data[1] # mainCanvas.data[2]

\* C20: once an eraser operation is over, however it ended, and nothing is
\* left loading, the main surface composites normally again, so that the
\* next pen or shape operation paints.
C20_EraserRestoresCompositing ==
    (~canvasManager.isDrawing /\ pending = EmptyBag)
        => mainCtx.globalCompositeOperation = "source-over"

\* The index into a canvas's data of the pixel at a point.
PixelIndex(canvas, point) == point[2] * canvas.width + point[1] + 1

\* C21: when a non-empty text is confirmed at a captured insertion point
\* and shows on the main surface, the text is part of the active layer: its
\* pixel is in the layer export of the 'Add text' snapshot and is still on
\* the surface after the next recomposite of the stack.
C21_TextBelongsToActiveLayer ==
    [][(/\ Command("addText")
        /\ textPosition # NoPoint
        /\ op'.args[1] # <<>>
        /\ hasActiveLayer(World)
        /\ mainCanvas' # mainCanvas)
       => LET k == PixelIndex(mainCanvas, textPosition)
              entry == At(history', currentIndex')
              exported == At(entry.layersData.layers, activeLayerIndex)
          IN  /\ entry.description = "Add text"
              /\ DecodeImage(exported.dataURL).data[k] = mainCanvas'.data[k]
              /\ renderComposite(World').mainCanvas.data[k] = mainCanvas'.data[k]]_vars

\* C22: a filter asked for before a baseline has been captured, through
\* ImageEditor.applyFilter or through CanvasManager.applyFilter, leaves the
\* main surface, the layers and the history as they are.
C22_NoFilterWithoutBaseline ==
    [][(/\ Command("applyFilter") \/ Command("canvasApplyFilter")
        /\ originalImageData = NoImageData)
       => UNCHANGED <<mainCanvas, layers, activeLayerIndex, history,
                      currentIndex>>]_vars

\* C23: a filter application that changes the surface appends exactly one
\* snapshot, taken after the filtered pixels were written and pulled into
\* the active layer: the new entry is the capture of the document as the
\* step leaves it.
C23_FilterSnapshotsResult ==
    [][(/\ Command("applyFilter") \/ Command("canvasApplyFilter")
        /\ mainCanvas' # mainCanvas)
       => LET entry  == [timestamp |-> timing.now,
                         description |-> "Action",
                         canvasData |-> captureCanvasState(World'),
                         layersData |-> captureLayersState(World'),
                         properties |-> capturePropertiesState(World')]
              pushed == Append(SubSeq(history, 1, currentIndex + 1), entry)
          IN  /\ history' = IF Len(pushed) > maxHistorySize THEN Tail(pushed)
                            ELSE pushed
              /\ currentIndex' = Len(history') - 1
              /\ At(layers', activeLayerIndex').canvas.data = mainCanvas'.data]_vars

\* A filter of the ImageEditor has changed an uploaded image, and the last
\* snapshot differs from the one before.
C23_Witness ==
    /\ op.name = "applyFilter"
    /\ Len(history) >= 2
    /\ currentIndex = Len(history) - 1
    /\ At(history, currentIndex).canvasData # At(history, currentIndex - 1).canvasData

\* Channel values that the surfaces of the filter claims are probed with,
\* next to the pixels the editor holds.
Channels == {0, 1, 127, 128, 255}

\* Alpha values of the probes: transparent, half, opaque.
Alphas == {0, 128, 255}

\* The surface on the main canvas, and one-pixel surfaces of every colour
\* over Channels.
Surfaces ==
    {getImageData(World)} \cup
    {[width |-> 1, height |-> 1, data |-> <<p>>] :
        p \in Channels \X Channels \X Channels \X Alphas}

\* C24: invertColors is its own inverse: applied twice to a surface it
\* yields the surface again, and it never changes alpha.
C24_InvertIsInvolution ==
    \A S \in Surfaces :
        /\ invertColors(invertColors(S)) = S
        /\ \A i \in 1..Len(S.data) : invertColors(S).data[i][4] = S.data[i][4]

\* The ImageEditor has inverted an uploaded image with colour in it.
C24_Witness ==
    /\ op = Op("applyFilter", <<"invert">>)
    /\ originalImageData # NoImageData
    /\ mainCanvas.data # originalImageData.data
    /\ invertColors(getImageData(World)) # getImageData(World)

\* C25: convertToGrayscale is idempotent: applied to its own result it
\* changes no channel.
C25_GrayscaleIsIdempotent ==
    \A S \in Surfaces :
        convertToGrayscale(convertToGrayscale(S)) = convertToGrayscale(S)

\* The ImageEditor has turned an uploaded image with colour in it grey.
C25_Witness ==
    /\ op = Op("applyFilter", <<"grayscale">>)
    /\ originalImageData # NoImageData
    /\ convertToGrayscale(originalImageData) # originalImageData
    /\ mainCanvas.data = convertToGrayscale(originalImageData).data

\* Blur radii probed: none, one pixel, the ImageEditor's two, and the five
\* of Utils.applyFilter at full intensity.
Radii == {0, 1, 2, 5}

\* The colour of pixel i of the box blur of S: per channel the sum over the
\* window around the pixel, clipped to the surface, of the pixels of S,
\* divided by the number of pixels summed.
BoxAverage(S, radius, i) ==
    LET idxs == Window(S, (i - 1) % S.width, (i - 1) \div S.width, radius)
        avg(k) == ToUint8Clamped(SumChannel(S.data, idxs, k), Cardinality(idxs))
    IN  <<avg(1), avg(2), avg(3)>>

\* C26: in both blur implementations every output pixel is the average of
\* the input surface's pixels over the window clipped to the surface: no
\* output pixel depends on an already blurred one.
C26_BlurAveragesInput ==
    \A radius \in Radii :
        LET S == getImageData(World)
        IN  \A i \in 1..Len(S.data) :
                /\ SubSeq(applyBlur(S, radius).data[i], 1, 3) = BoxAverage(S, radius, i)
                /\ SubSeq(utilsApplyFilter(S, "blur", radius * 20).data[i], 1, 3)
                       = BoxAverage(S, radius, i)

\* The stack without its layer at index i (0-based).
WithoutLayer(ls, i) == SubSeq(ls, 1, i) \o SubSeq(ls, i + 2, Len(ls))

\* Opaque blue at opacity 1 below opaque red at opacity 0.5, both visible
\* and in Normal mode.
RedOverBlue ==
    /\ Len(layers) = 2
    /\ \A l \in {layers[1], layers[2]} : l.visible /\ l.blendMode = "normal"
    /\ layers[1].opacity = 100 /\ \A i \in 1..CanvasW : layers[1].canvas.data[i] = Blue
    /\ layers[2].opacity = 50 /\ \A i \in 1..CanvasW : layers[2].canvas.data[i] = Red

\* C27: the composite paints the visible layers bottom to top with their
\* opacities.  Half-opaque red over blue gives the even mix of the two in
\* every pixel (127.5, to the nearest byte either way), and a layer whose
\* visibility is toggled off leaves the composite of the stack without it.
C27_CompositeOfVisibleLayers ==
    /\ []((op.name = "setLayerOpacity" /\ RedOverBlue) =>
            \A i \in 1..CanvasW :
                /\ mainCanvas.data[i][1] \in {127, 128}
                /\ mainCanvas.data[i][2] = 0
                /\ mainCanvas.data[i][3] \in {127, 128}
                /\ mainCanvas.data[i][4] = 255)
    /\ [][(/\ Command("toggleLayerVisibility")
           /\ op'.args[1] \in 0..(Len(layers) - 1)
           /\ At(layers, op'.args[1]).visible)
          => mainCanvas' = CompositeOf(WithoutLayer(layers, op'.args[1]))]_vars

\* The top layer of red over blue has just been set to half opacity.
C27_Witness == op.name = "setLayerOpacity" /\ RedOverBlue

\* C28: opening a project file that lacks version, layers or canvas changes
\* nothing: the layer stack, the canvas dimensions and the history log are
\* what they were before.
C28_InvalidProjectRejected ==
    [][(Command("loadProject") /\ (\E k \in 1..3 : ~op'.args[k]))
       => /\ layers' = layers
          /\ activeLayerIndex' = activeLayerIndex
          /\ pending' = pending
          /\ mainCanvas'.width = mainCanvas.width
          /\ mainCanvas'.height = mainCanvas.height
          /\ history' = history
          /\ currentIndex' = currentIndex]_vars

\* A file without one of the required fields has been opened on a document
\* of several layers and snapshots.
C28_Witness ==
    /\ op.name = "loadProject"
    /\ (\E k \in 1..3 : ~op.args[k])
    /\ Len(layers) >= 2
    /\ Len(history) >= 2

\* The canvas elements the layers of a stack hold.
ElementsOf(ls) == {ls[k].element : k \in 1..Len(ls)}

\* C29: duplicateLayer(i) with i in range makes the stack one longer, puts
\* the copy at i + 1 right above the source with the other layers in their
\* order, gives the copy a canvas of its own that shows what the source
\* shows, and makes i + 1 the active index; afterwards a stroke committed
\* on one layer changes the surface of no other layer.
C29_DuplicateLayerCopiesAbove ==
    /\ [][(Command("duplicateLayer") /\ op'.args[1] \in 0..(Len(layers) - 1))
          => LET i == op'.args[1]
             IN  /\ Len(layers') = Len(layers) + 1
                 /\ \A k \in 0..i : At(layers', k) = At(layers, k)
                 /\ \A k \in (i + 1)..(Len(layers) - 1) : At(layers', k + 1) = At(layers, k)
                 /\ At(layers', i + 1).canvas = At(layers, i).canvas
                 /\ At(layers', i + 1).element \notin ElementsOf(layers)
                 /\ At(layers', i + 1).id \notin {layers[k].id : k \in 1..Len(layers)}
                 /\ activeLayerIndex' = i + 1]_vars
    /\ [][(Command("stopDrawing") /\ hasActiveLayer(World))
          => /\ Len(layers') = Len(layers)
             /\ \A k \in 0..(Len(layers) - 1) :
                    k # activeLayerIndex => At(layers', k) = At(layers, k)]_vars

\* A layer with content has been duplicated and a stroke on the copy has
\* made the two surfaces differ.
C29_Witness ==
    /\ op.name = "stopDrawing"
    /\ Len(layers) = 2
    /\ activeLayerIndex = 1
    /\ layers[2].name.copies = 1
    /\ layers[1].canvas.data[1] \in {Red, Blue}
    /\ layers[2].canvas # layers[1].canvas

\* C30: moveLayer(from, to) with both indices in range leaves the layer
\* that was at from at position to and the other layers in their prior
\* order, and the layer that is active afterwards is the one (same id)
\* that was active before.
C30_MoveLayerKeepsActiveLayer ==
    [][(/\ Command("moveLayer")
        /\ hasActiveLayer(World)
        /\ op'.args[1] \in 0..(Len(layers) - 1)
        /\ op'.args[2] \in 0..(Len(layers) - 1))
       => /\ Len(layers') = Len(layers)
          /\ At(layers', op'.args[2]) = At(layers, op'.args[1])
          /\ SpliceOne(layers', op'.args[2]) = SpliceOne(layers, op'.args[1])
          /\ activeLayerIndex' \in 0..(Len(layers') - 1)
          /\ At(layers', activeLayerIndex').id = At(layers, activeLayerIndex).id]_vars

\* A layer has been moved across the active one in a stack of three.
C30_Witness ==
    /\ op.name = "moveLayer"
    /\ Len(layers) = 3
    /\ Len(op.args) = 2
    /\ {op.args[1], op.args[2]} = {0, 2}
    /\ activeLayerIndex \in {0, 2}
    /\ activeLayerIndex # op.args[2]
    /\ ret = "true"

\* C31: flattenImage on a stack of two or more layers leaves exactly one
\* layer, named "Flattened", with activeLayerIndex 0, and the surface of
\* that layer is the composite of the whole stack as it was before.
C31_FlattenKeepsComposite ==
    [][(Command("flattenImage") /\ Len(layers) >= 2)
       => /\ Len(layers') = 1
          /\ layers'[1].name.base = "Flattened"
          /\ activeLayerIndex' = 0
          /\ layers'[1].canvas = CompositeOf(layers)]_vars

\* The armed timeouts of Utils.debounce.
LaterTimers(t) == {timer \in t.timers : timer.callback = "later"}

\* C32: snapshots taken through saveStateThrottled are at least one
\* throttle interval apart.  A call of saveStateDebounced takes no snapshot
\* and leaves one timeout armed, a quiet period ahead, with its own
\* description, so a burst is answered by the timeout of its last call
\* alone; when that timeout runs, not before the quiet period is over, it
\* appends one snapshot with that description.
C32_RateLimitedSnapshots ==
    /\ [](\A i, j \in 1..Len(history) :
            (/\ i < j
             /\ history[i].description \in ThrottledDescriptions
             /\ history[j].description \in ThrottledDescriptions)
            => history[j].timestamp - history[i].timestamp >= ThrottleLimit)
    /\ [](\A i, j \in 1..Len(history) :
            (/\ i < j
             /\ history[i].description \in DebouncedDescriptions
             /\ history[j].description \in DebouncedDescriptions)
            => history[j].timestamp - history[i].timestamp >= DebounceWait)
    /\ [][Command("saveStateDebounced")
          => /\ history' = history
             /\ currentIndex' = currentIndex
             /\ \E timer \in timing'.timers :
                    /\ LaterTimers(timing') = {timer}
                    /\ timer.due = timing.now + DebounceWait
                    /\ timer.description = op'.args[1]]_vars
    /\ [][(op'.name = "later" /\ timing'.timers # timing.timers)
          => /\ \E timer \in timing.timers :
                    /\ LaterTimers(timing) = {timer}
                    /\ timer.due <= timing.now
                    /\ timer.description = op'.args[1]
             /\ LaterTimers(timing') = {}
             /\ Len(history') = Len(history) + 1 \/ Len(history) = maxHistorySize
             /\ Last(history').description = op'.args[1]
             /\ Last(history').timestamp = timing.now]_vars

\* Two throttled snapshots are in the log, and a burst of two debounced
\* calls (four timeouts were armed in all) has been answered by the one
\* snapshot of its last call.
C32_Witness ==
    /\ op.name = "later"
    /\ op.args = <<"Resize">>
    /\ Len(history) = 3
    /\ history[1].description = "Stroke"
    /\ history[2].description = "Stroke"
    /\ history[3].description = "Resize"
    /\ timing.timerId = 4
    /\ budget = 0

\* C33: jumpToState(i) with i in range sets currentIndex to i, starts the
\* restore of entry i, leaves the log's entries as they are and returns
\* true; with i out of range it returns false and changes nothing.
C33_JumpToStateReturns ==
    [][Command("jumpToState")
       => IF op'.args[1] \in 0..(Len(history) - 1)
          THEN /\ currentIndex' = op'.args[1]
               /\ history' = history
               /\ World' = [restoreState([World EXCEPT !.currentIndex = op'.args[1]],
                                         At(history, op'.args[1]))
                            EXCEPT !.ret = World'.ret]
               /\ ret' = "true"
          ELSE /\ ret' = "false"
               /\ World' = [World EXCEPT !.ret = "false"]]_vars

\* C34: after a confirmed newDocument the stack holds one fresh layer with
\* activeLayerIndex 0, and the history log holds one entry, the
\* 'New document' snapshot, with currentIndex 0, so that neither undo nor
\* redo is possible.
C34_NewDocumentStartsAfresh ==
    [][Command("newDocument")
       => /\ Len(layers') = 1
          /\ layers'[1].id \notin {layers[k].id : k \in 1..Len(layers)}
          /\ activeLayerIndex' = 0
          /\ Len(history') = 1
          /\ history'[1].description = "New document"
          /\ currentIndex' = 0
          /\ ~canUndo(World')
          /\ ~canRedo(World')]_vars

\* C35: an operation of the select tool that completes at pointerUp leaves
\* the surface of every layer as it was at the pointerDown.
C35_SelectChangesNoLayer ==
    [][(/\ Command("stopDrawing")
        /\ canvasManager.isDrawing
        /\ canvasManager.currentTool = "select"
        /\ toolManager.currentTool = "select"
        /\ downDoc # <<>>)
       => /\ Len(layers') = Len(downDoc[1].layers)
          /\ \A k \in 1..Len(layers') :
                 layers'[k].canvas = downDoc[1].layers[k].canvas]_vars

\* C36: an undo issued right after a tool operation has completed, with
\* an earlier completed operation before it, reverts that operation alone:
\* the entry it restores holds the document as it was at the pointerDown
\* of the operation (the last snapshot), and the entry a redo would
\* restore next holds the document as it was before the undo.
C36_UndoRevertsLastOperation ==
    [][(/\ Command("undo")
        /\ op.name = "stopDrawing"
        /\ ret' = "true"
        /\ Len(history) >= 2
        /\ currentIndex = Len(history) - 1
        /\ captureLayersState(World) # At(history, currentIndex).layersData
        /\ At(history, currentIndex).layersData # At(history, currentIndex - 1).layersData)
       => /\ At(history', currentIndex').layersData = At(history, currentIndex).layersData
          /\ canRedo(World')
          /\ At(history', currentIndex' + 1).layersData = captureLayersState(World)]_vars

\* C37: once every image-load callback has run after a successful undo,
\* redo or jumpTo, restores that overlapped included, the live stack holds
\* no more layers than the entry at currentIndex and no layer that the
\* entry does not hold.
C37_OverlappingRestoresSettle ==
    (/\ \/ op.name \in {"undo", "redo"} /\ ret = "true"
        \/ op.name = "jumpToState" /\ ret = "TypeError"
     /\ pending = EmptyBag)
    => LET target == At(history, currentIndex).layersData.layers
       IN  /\ Len(layers) = Len(target)
           /\ \A k \in 1..Len(layers) :
                  \E j \in 1..Len(target) : exportLayers(World)[k] = target[j]

\* C38: the tool recorded by ToolManager is always the tool recorded by
\* CanvasManager, and while an operation stays Active the current tool
\* stays the one whose start hook ran at its pointerDown, so that the end
\* hook at pointerUp is that tool's; an undo or redo during the operation
\* does not change it.
C38_OperationKeepsItsTool ==
    /\ [](toolManager.currentTool = canvasManager.currentTool)
    /\ [][(canvasManager.isDrawing /\ canvasManager'.isDrawing)
          => toolManager'.currentTool = toolManager.currentTool]_vars

\* The ids of the layers of a stack, as a set.
IdSet(ls) == {ls[k].id : k \in 1..Len(ls)}

\* C39: no two layers of the stack have the same id, and a layer created
\* by addLayer, duplicateLayer, flattenImage or newDocument gets an id
\* greater than every id that was in the stack.
C39_LayerIdsUnique ==
    /\ [](\A j, k \in 1..Len(layers) : j # k => layers[j].id # layers[k].id)
    /\ [][(\/ Command("addLayer") \/ Command("duplicateLayer")
           \/ Command("flattenImage") \/ Command("newDocument"))
          => \A id \in IdSet(layers') \ IdSet(layers) :
                 \A old \in IdSet(layers) : id > old]_vars

\* C40: every layer's surface has the width and height of the main canvas,
\* also after an image import, a project load or a restore has changed the
\* canvas dimensions.
C40_LayersMatchCanvasSize ==
    \A k \in 1..Len(layers) :
        /\ layers[k].canvas.width = mainCanvas.width
        /\ layers[k].canvas.height = mainCanvas.height

====
